---- MODULE Spec2Model ----
(***************************************************************************)
(* Model of configureRefreshFetch (src/configureRefreshFetch.ts): the      *)
(* single-flight token-refresh coordinator.  One coordinator instance,     *)
(* NumCalls wrapped calls, each a continuation that advances between the   *)
(* await points of the async arrow function.                               *)
(*                                                                         *)
(* Granularity: the settlement of a transport promise and the resumption   *)
(* of the call awaiting it are one step (the settlement changes no         *)
(* coordinator state).  The settlement of the promise returned by          *)
(* refreshToken(), the .then/.catch callback that clears the handle, and   *)
(* the resumption of each call awaiting the handle are separate steps, as  *)
(* they are separate jobs of the event loop.                               *)
(***************************************************************************)
EXTENDS Naturals, Sequences, FiniteSets

\* ---------------------------------------------------------------- bounds
NumCalls == 2
\* distinct listener functions
NumListeners == 2
\* longest listeners array
MaxRegistered == 3
\* result objects that detectEnvironment creates
MaxDetections == 3

Calls == 1..NumCalls

\* --------------------------------------------------------- input domains
\* <<url, options>> pairs a caller may pass; "{}" is the default of line 17
Args == {<<"/a", "{}">>, <<"/b", "POST">>}
\* success values the transport may resolve with
TransportValues == {"V1", "V2"}
\* failures the transport may reject with, by classification
AuthErrors == {"E1", "E2"}
NonAuthErrors == {"N1"}
TransportErrors == AuthErrors \cup NonAuthErrors
\* failures refreshToken() may reject with
RefreshErrors == {"R1"}

\* refreshingTokenPromise === null
Null == 0

VARIABLES
  refreshingTokenPromise, \* Null or the id of the installed handle
  refreshTokenState,      \* per refreshToken() invocation: "pending", "ok" or a RefreshError
  handleState,            \* per handle (the wrapping new Promise): "pending", "ok" or a RefreshError
  installer,              \* per handle: the call that invoked refreshToken()
  pc,                     \* per call: position in the async function
  args,                   \* per call: (url, options) it was invoked with
  awaiting,               \* per call: the handle it awaits / awaited (Null if none)
  error,                  \* per call: the `error` bound by catch at line 32
  fetchArgs,              \* per call: arguments of each transport call it issued
  fetchOut,               \* per call: outcome of each settled transport call
  result,                 \* per call: value resolved / rejected with
  pendingAtInvoke,        \* history: the handle installed when the call was invoked (Null if none)
  clearedAtFail,          \* history: number of handles already cleared when the first attempt failed
  classified              \* history: per call, the arguments shouldRefreshToken was called with

\* Two coordinator instances, each built by its own configureRefreshFetch call
VARIABLES
  t_handle,   \* per closure slot: the refreshingTokenPromise variable (Null or a handle id)
  t_hstate,   \* per handle: "pending", "ok" or "failed"
  t_hinst,    \* per handle: the instance whose call invoked refreshToken()
  t_pc,       \* per call: position in the async function
  t_inst,     \* per call: the instance it was made through (Null before the call)
  t_await     \* per call: the handle it awaits / awaited (Null if none)

coordVars == <<refreshingTokenPromise, refreshTokenState, handleState, installer, pc, args,
               awaiting, error, fetchArgs, fetchOut, result, pendingAtInvoke, clearedAtFail,
               classified>>
twinVars == <<t_handle, t_hstate, t_hinst, t_pc, t_inst, t_await>>

\* A transport function that may throw before returning a promise
VARIABLES
  thrownSync  \* history: the paths on which fetch(url, options) has thrown synchronously

syncVars == <<thrownSync>>

\* One fetchJSON call (src/fetchJSON.ts)
VARIABLES
  j_pc,        \* "idle", "fetching" (line 33), "reading" (lines 47/50), "resolved", "rejected"
  j_options,   \* the options argument
  j_sent,      \* the options passed to the global fetch
  j_response,  \* the Response the global fetch resolved with (status 0: none yet)
  j_result     \* what the call resolved or rejected with

jsonVars == <<j_pc, j_options, j_sent, j_response, j_result>>

\* One listener manager of platforms/react-native: a ReactNativeAppStateManager
\* or a ReactNativeNetworkManager in a React Native environment
VARIABLES
  m_kind,       \* "none" before construction, then "app" or "net"
  m_current,    \* this.currentState
  m_listeners,  \* this.listeners
  m_issued,     \* the listeners for which addListener has returned an unsubscribe function
  m_stale,      \* the listeners with an unsubscribe function from before the last destroy
  m_staleHit,   \* history: an unsubscribe function from before a destroy has removed a
                \* listener from the array
  m_dispatch,   \* "running" while notifyListeners' forEach is on the stack, else "idle"
  m_iter,       \* the array that forEach iterates
  m_alias,      \* TRUE while that array is still this.listeners
  m_k,          \* forEach's index (0-based)
  m_len,        \* the length forEach read when it started
  m_state,      \* the state passed to notifyListeners
  m_snapshot,   \* history: this.listeners when the dispatch started
  m_invoked,    \* history: <<listener, state received>> per invocation of the dispatch
  m_caught,     \* history: the listeners whose throw the dispatch caught and logged
  m_thrown,     \* the listeners whose error left notifyListeners for the platform
  m_live,       \* history, per listener: registrations made and not yet taken back
  m_unsubbed,   \* history: the listeners of which an unsubscribe function has been called
  m_unsubAtStart, \* history: m_unsubbed when the dispatch started
  m_reentered,  \* history: a listener of the dispatch has made a call on the manager
  m_reported    \* history: <<report>> right after the platform reported it, else <<>>

mgrHist == <<m_thrown, m_live, m_unsubbed, m_unsubAtStart, m_reentered, m_reported,
             m_stale, m_staleHit>>

mgrVars == <<m_kind, m_current, m_listeners, m_issued, m_dispatch, m_iter, m_alias, m_k,
             m_len, m_state, m_snapshot, m_invoked, m_caught, mgrHist>>

\* Environment detection (src/environment.ts)
VARIABLES
  e_globals,          \* the runtime globals that detectEnvironment inspects
  cachedEnvironment,  \* line 13: <<>> for null, else <<the cached result object>>
  e_created,          \* number of result objects created so far (object identity)
  e_outcome,          \* how the detectEnvironment call of the last step ended:
                      \* "returned", "threw", or "none" if the last step was no such call
  e_result,           \* <<the object that call returned>>, else <<>>
  e_first             \* history: identity of the first object returned since the last
                      \* clearEnvironmentCache (0: none yet)

envVars == <<e_globals, cachedEnvironment, e_created, e_outcome, e_result, e_first>>

\* One useRefreshFetch hook instance (hooks, part_001 lines 95-144) and the
\* fetch functions of two of its renders
VARIABLES
  h_ref,     \* refreshingRef.current (line 107)
  h_under,   \* per configuration.refreshToken() invocation: "pending", "ok" or "failed"
  h_handle,  \* per render: refreshingTokenPromise of the coordinator made by that render
  hk_inst,   \* per handle: the render whose coordinator installed it
  hk_under,  \* per handle: the configuration.refreshToken() invocation that its
             \* enhancedRefreshToken() call made (0: it returned at line 112)
  hk_seen,   \* history, per handle: the configuration.refreshToken() invocation that
             \* held refreshingRef when the handle was installed (its own if it made one)
  hk_enh,    \* per handle: the promise of its enhancedRefreshToken() call
  hk_state,  \* per handle: "pending", "ok" or "failed"
  hc_pc,     \* per call: position in the wrapped function
  hc_inst,   \* per call: the render whose fetch function was invoked
  hc_await   \* per call: the handle it awaits / awaited

hookVars == <<h_ref, h_under, h_handle, hk_inst, hk_under, hk_seen, hk_enh, hk_state,
              hc_pc, hc_inst, hc_await>>

vars == <<coordVars, twinVars, syncVars, jsonVars, mgrVars, envVars, hookVars>>

\* what the steps of the single coordinator leave alone
coordFrame == <<twinVars, syncVars, jsonVars, mgrVars, envVars, hookVars>>
\* what the steps of the two-instance model leave alone
twinFrame == <<coordVars, syncVars, jsonVars, mgrVars, envVars, hookVars>>
\* what the steps of fetchJSON leave alone
jsonFrame == <<coordVars, twinVars, syncVars, mgrVars, envVars, hookVars>>
\* what the steps of a listener manager leave alone
mgrFrame == <<coordVars, twinVars, syncVars, jsonVars, envVars, hookVars>>
\* what the steps of environment detection leave alone
envFrame == <<coordVars, twinVars, syncVars, jsonVars, mgrVars, hookVars>>
\* what the steps of the hook leave alone
hookFrame == <<coordVars, twinVars, syncVars, jsonVars, mgrVars, envVars>>

\* the instances of the two-instance model
Instances == {1, 2}

NoValue == "none"
NotYet == NumCalls + 1

\* mutation of line 34: the classification is ignored, every failure refreshes
shouldRefreshToken_Always(e) == TRUE

\* configuration.shouldRefreshToken: the caller's pure classifier
shouldRefreshToken(e) == e \in AuthErrors

\* number of refreshToken() invocations so far
refreshCalls == Len(refreshTokenState)

\* number of handles whose callback has run (cleared and settled)
clearedHandles == Cardinality({h \in 1..Len(handleState) : handleState[h] # "pending"})

Init ==
  /\ refreshingTokenPromise = Null
  /\ refreshTokenState = <<>>
  /\ handleState = <<>>
  /\ installer = <<>>
  /\ pc = [c \in Calls |-> "idle"]
  /\ args = [c \in Calls |-> NoValue]
  /\ awaiting = [c \in Calls |-> Null]
  /\ error = [c \in Calls |-> NoValue]
  /\ fetchArgs = [c \in Calls |-> <<>>]
  /\ fetchOut = [c \in Calls |-> <<>>]
  /\ result = [c \in Calls |-> NoValue]
  /\ pendingAtInvoke = [c \in Calls |-> Null]
  /\ clearedAtFail = [c \in Calls |-> NotYet]
  /\ classified = [c \in Calls |-> <<>>]
  /\ t_handle = [i \in Instances |-> Null]
  /\ t_hstate = <<>>
  /\ t_hinst = <<>>
  /\ t_pc = [c \in Calls |-> "idle"]
  /\ t_inst = [c \in Calls |-> Null]
  /\ t_await = [c \in Calls |-> Null]
  /\ thrownSync = {}
  /\ j_pc = "idle"
  /\ j_options = NoValue
  /\ j_sent = NoValue
  /\ j_response = [ok |-> FALSE, status |-> 0, contentType |-> "absent", text |-> ""]
  /\ m_kind = "none"
  /\ m_current = NoValue
  /\ m_listeners = <<>>
  /\ m_issued = {}
  /\ m_dispatch = "idle"
  /\ m_iter = <<>>
  /\ m_alias = FALSE
  /\ m_k = 0
  /\ m_len = 0
  /\ m_state = NoValue
  /\ m_snapshot = <<>>
  /\ m_invoked = <<>>
  /\ m_caught = <<>>
  /\ m_thrown = {}
  /\ m_live = [l \in 1..NumListeners |-> 0]
  /\ m_unsubbed = {}
  /\ m_unsubAtStart = {}
  /\ m_reentered = FALSE
  /\ m_reported = <<>>
  /\ m_stale = {}
  /\ m_staleHit = FALSE
  /\ e_globals = [navigator |-> "undeclared", global |-> "plain", process |-> "node",
                  window |-> "undeclared", require |-> "nommkv"]
  /\ cachedEnvironment = <<>>
  /\ e_created = 0
  /\ e_outcome = "none"
  /\ e_result = <<>>
  /\ e_first = 0
  /\ h_ref = FALSE
  /\ h_under = <<>>
  /\ h_handle = [i \in {1, 2} |-> Null]
  /\ hk_inst = <<>>
  /\ hk_under = <<>>
  /\ hk_seen = <<>>
  /\ hk_enh = <<>>
  /\ hk_state = <<>>
  /\ hc_pc = [c \in Calls |-> "idle"]
  /\ hc_inst = [c \in Calls |-> Null]
  /\ hc_await = [c \in Calls |-> Null]
  /\ j_result = NoValue

\* mutation of line 19: the check is dropped, no call ever queues
RefreshInProgress_Never == FALSE

\* line 19: if (refreshingTokenPromise !== null)
RefreshInProgress == refreshingTokenPromise # Null

\* mutation of line 36: the check is dropped, every auth failure starts a refresh
MustStartRefresh_Always == TRUE

\* line 36: if (refreshingTokenPromise === null)
MustStartRefresh == refreshingTokenPromise = Null

\* mutation of fetch(url, options): the options are dropped
CallArgs_NoOptions(c) == <<args[c][1], "{}">>

\* the arguments of every fetch(url, options) after the first suspension (lines 22, 26, 53)
CallArgs(c) == args[c]

\* The wrapped function is invoked with (url, options) = a and runs to its
\* first await: line 21 when a handle is installed, line 31 otherwise.
Invoke(c, a) ==
  /\ pc[c] = "idle"
  /\ args' = [args EXCEPT ![c] = a]
  /\ pendingAtInvoke' = [pendingAtInvoke EXCEPT ![c] = refreshingTokenPromise]
  /\ IF RefreshInProgress
       THEN /\ pc' = [pc EXCEPT ![c] = "awaitQueued"]
            /\ awaiting' = [awaiting EXCEPT ![c] = refreshingTokenPromise]
            /\ UNCHANGED fetchArgs
       ELSE /\ pc' = [pc EXCEPT ![c] = "fetchFirst"]
            /\ fetchArgs' = [fetchArgs EXCEPT ![c] = Append(@, a)]
            /\ UNCHANGED awaiting
  /\ UNCHANGED <<refreshingTokenPromise, refreshTokenState, handleState, installer,
                 error, fetchOut, result, clearedAtFail,
                 classified>>
  /\ UNCHANGED coordFrame

\* mutation of line 31: the value is awaited but not returned
FirstFetchResolves_NoReturn(c, v) ==
  /\ pc[c] = "fetchFirst"
  /\ fetchOut' = [fetchOut EXCEPT ![c] = Append(@, v)]
  /\ result' = [result EXCEPT ![c] = NoValue]
  /\ pc' = [pc EXCEPT ![c] = "resolved"]
  /\ UNCHANGED <<refreshingTokenPromise, refreshTokenState, handleState, installer,
                 args, awaiting, error, fetchArgs, pendingAtInvoke, clearedAtFail,
                 classified>>
  /\ UNCHANGED coordFrame

\* line 31: the first transport call resolves with v; the call returns it.
FirstFetchResolves(c, v) ==
  /\ pc[c] = "fetchFirst"
  /\ fetchOut' = [fetchOut EXCEPT ![c] = Append(@, v)]
  /\ result' = [result EXCEPT ![c] = v]
  /\ pc' = [pc EXCEPT ![c] = "resolved"]
  /\ UNCHANGED <<refreshingTokenPromise, refreshTokenState, handleState, installer,
                 args, awaiting, error, fetchArgs, pendingAtInvoke, clearedAtFail,
                 classified>>
  /\ UNCHANGED coordFrame

\* lines 32-61: the first transport call rejects with e.
FirstFetchRejects(c, e) ==
  /\ pc[c] = "fetchFirst"
  /\ fetchOut' = [fetchOut EXCEPT ![c] = Append(@, e)]
  /\ error' = [error EXCEPT ![c] = e]
  /\ clearedAtFail' = [clearedAtFail EXCEPT ![c] = clearedHandles]
  /\ IF shouldRefreshToken(e)
       THEN /\ IF MustStartRefresh
                 THEN \* lines 37-47: refreshToken() is invoked inside the executor
                      /\ refreshTokenState' = Append(refreshTokenState, "pending")
                      /\ handleState' = Append(handleState, "pending")
                      /\ installer' = Append(installer, c)
                      /\ refreshingTokenPromise' = Len(handleState) + 1
                 ELSE UNCHANGED <<refreshTokenState, handleState, installer,
                                  refreshingTokenPromise>>
            \* line 51: await refreshingTokenPromise
            /\ awaiting' = [awaiting EXCEPT ![c] = refreshingTokenPromise']
            /\ pc' = [pc EXCEPT ![c] = "awaitRefresh"]
            /\ UNCHANGED result
       ELSE \* line 60: throw error
            /\ result' = [result EXCEPT ![c] = e]
            /\ pc' = [pc EXCEPT ![c] = "rejected"]
            /\ UNCHANGED <<refreshTokenState, handleState, installer,
                           refreshingTokenPromise, awaiting>>
  /\ classified' = [classified EXCEPT ![c] = Append(@, e)]
  /\ UNCHANGED <<args, fetchArgs, pendingAtInvoke>>
  /\ UNCHANGED coordFrame

\* The promise returned by refreshToken() (line 38) settles: r is "ok" or
\* the failure it rejects with.  No coordinator code runs in this step.
RefreshTokenSettles(h, r) ==
  /\ h \in 1..Len(refreshTokenState)
  /\ refreshTokenState[h] = "pending"
  /\ refreshTokenState' = [refreshTokenState EXCEPT ![h] = r]
  /\ UNCHANGED <<refreshingTokenPromise, handleState, installer, pc, args, awaiting,
                 error, fetchArgs, fetchOut, result, pendingAtInvoke, clearedAtFail,
                 classified>>
  /\ UNCHANGED coordFrame

\* lines 39-42: .then callback: refreshingTokenPromise = null; resolve()
ThenCallback(h) ==
  /\ h \in 1..Len(handleState)
  /\ handleState[h] = "pending"
  /\ refreshTokenState[h] = "ok"
  /\ refreshingTokenPromise' = Null
  /\ handleState' = [handleState EXCEPT ![h] = "ok"]
  /\ UNCHANGED <<refreshTokenState, installer, pc, args, awaiting, error, fetchArgs,
                 fetchOut, result, pendingAtInvoke, clearedAtFail,
                 classified>>
  /\ UNCHANGED coordFrame

\* mutation of lines 43-46: the handle is not cleared when the refresh fails
CatchCallback_NoClear(h) ==
  /\ h \in 1..Len(handleState)
  /\ handleState[h] = "pending"
  /\ refreshTokenState[h] \in RefreshErrors
  /\ handleState' = [handleState EXCEPT ![h] = refreshTokenState[h]]
  /\ UNCHANGED <<refreshingTokenPromise, refreshTokenState, installer, pc, args, awaiting,
                 error, fetchArgs, fetchOut, result, pendingAtInvoke, clearedAtFail,
                 classified>>
  /\ UNCHANGED coordFrame

\* lines 43-46: .catch callback: refreshingTokenPromise = null; reject(refreshTokenError)
CatchCallback(h) ==
  /\ h \in 1..Len(handleState)
  /\ handleState[h] = "pending"
  /\ refreshTokenState[h] \in RefreshErrors
  /\ refreshingTokenPromise' = Null
  /\ handleState' = [handleState EXCEPT ![h] = refreshTokenState[h]]
  /\ UNCHANGED <<refreshTokenState, installer, pc, args, awaiting, error, fetchArgs,
                 fetchOut, result, pendingAtInvoke, clearedAtFail,
                 classified>>
  /\ UNCHANGED coordFrame

\* mutation of line 56: the catch clause rethrows what it caught
RethrownByCatch_Caught(c, caught) == caught

\* line 56: throw error  (caught is what the catch clause at line 54 caught)
RethrownByCatch(c, caught) == error[c]

\* mutation of line 51: the handle is not awaited, the retry is issued at once
ResumeAfterRefresh_NoAwait(c) ==
  /\ pc[c] = "awaitRefresh"
  /\ fetchArgs' = [fetchArgs EXCEPT ![c] = Append(@, CallArgs(c))]
  /\ pc' = [pc EXCEPT ![c] = "fetchRetry"]
  /\ UNCHANGED <<refreshingTokenPromise, refreshTokenState, handleState, installer, args,
                 awaiting, error, fetchOut, result, pendingAtInvoke, clearedAtFail,
                 classified>>
  /\ UNCHANGED coordFrame

\* mutation of lines 50-57: the retry is issued whether the refresh succeeded or not
ResumeAfterRefresh_RetryAlways(c) ==
  /\ pc[c] = "awaitRefresh"
  /\ handleState[awaiting[c]] # "pending"
  /\ fetchArgs' = [fetchArgs EXCEPT ![c] = Append(@, CallArgs(c))]
  /\ pc' = [pc EXCEPT ![c] = "fetchRetry"]
  /\ UNCHANGED <<refreshingTokenPromise, refreshTokenState, handleState, installer, args,
                 awaiting, error, fetchOut, result, pendingAtInvoke, clearedAtFail,
                 classified>>
  /\ UNCHANGED coordFrame

\* lines 50-57: a call suspended at line 51 resumes once its handle settled.
ResumeAfterRefresh(c) ==
  /\ pc[c] = "awaitRefresh"
  /\ handleState[awaiting[c]] # "pending"
  /\ IF handleState[awaiting[c]] = "ok"
       THEN \* line 53: the retry is issued
            /\ fetchArgs' = [fetchArgs EXCEPT ![c] = Append(@, CallArgs(c))]
            /\ pc' = [pc EXCEPT ![c] = "fetchRetry"]
            /\ UNCHANGED result
       ELSE \* lines 54-56
            /\ result' = [result EXCEPT ![c] = RethrownByCatch(c, handleState[awaiting[c]])]
            /\ pc' = [pc EXCEPT ![c] = "rejected"]
            /\ UNCHANGED fetchArgs
  /\ UNCHANGED <<refreshingTokenPromise, refreshTokenState, handleState, installer, args,
                 awaiting, error, fetchOut, pendingAtInvoke, clearedAtFail,
                 classified>>
  /\ UNCHANGED coordFrame

\* line 53: the retry resolves with v; the call returns it.
RetryResolves(c, v) ==
  /\ pc[c] = "fetchRetry"
  /\ fetchOut' = [fetchOut EXCEPT ![c] = Append(@, v)]
  /\ result' = [result EXCEPT ![c] = v]
  /\ pc' = [pc EXCEPT ![c] = "resolved"]
  /\ UNCHANGED <<refreshingTokenPromise, refreshTokenState, handleState, installer,
                 args, awaiting, error, fetchArgs, pendingAtInvoke, clearedAtFail,
                 classified>>
  /\ UNCHANGED coordFrame

\* mutation of lines 53-56: a failed retry is retried
RetryRejects_RetriesAgain(c, e) ==
  /\ pc[c] = "fetchRetry"
  /\ fetchOut' = [fetchOut EXCEPT ![c] = Append(@, e)]
  /\ fetchArgs' = [fetchArgs EXCEPT ![c] = Append(@, CallArgs(c))]
  /\ UNCHANGED <<refreshingTokenPromise, refreshTokenState, handleState, installer,
                 args, awaiting, error, result, pc, pendingAtInvoke, clearedAtFail,
                 classified>>
  /\ UNCHANGED coordFrame

\* lines 53-56: the retry rejects with e inside the try block of line 50, so
\* the catch clause of line 54 runs and throws `error`.
RetryRejects(c, e) ==
  /\ pc[c] = "fetchRetry"
  /\ fetchOut' = [fetchOut EXCEPT ![c] = Append(@, e)]
  /\ result' = [result EXCEPT ![c] = RethrownByCatch(c, e)]
  /\ pc' = [pc EXCEPT ![c] = "rejected"]
  /\ UNCHANGED <<refreshingTokenPromise, refreshTokenState, handleState, installer,
                 args, awaiting, error, fetchArgs, pendingAtInvoke, clearedAtFail,
                 classified>>
  /\ UNCHANGED coordFrame

\* mutation of lines 20-27: no catch clause, a rejected handle rejects the call
ResumeQueued_NoCatch(c) ==
  /\ pc[c] = "awaitQueued"
  /\ handleState[awaiting[c]] # "pending"
  /\ IF handleState[awaiting[c]] = "ok"
       THEN /\ fetchArgs' = [fetchArgs EXCEPT ![c] = Append(@, CallArgs(c))]
            /\ pc' = [pc EXCEPT ![c] = "fetchQueuedTry"]
            /\ UNCHANGED result
       ELSE /\ result' = [result EXCEPT ![c] = handleState[awaiting[c]]]
            /\ pc' = [pc EXCEPT ![c] = "rejected"]
            /\ UNCHANGED fetchArgs
  /\ UNCHANGED <<refreshingTokenPromise, refreshTokenState, handleState, installer, args,
                 awaiting, error, fetchOut, pendingAtInvoke, clearedAtFail,
                 classified>>
  /\ UNCHANGED coordFrame

\* lines 20-27: a call suspended at line 21 resumes once its handle settled:
\* line 22 issues the transport call when the handle resolved, the catch
\* clause (line 26) issues it when the handle rejected.
ResumeQueued(c) ==
  /\ pc[c] = "awaitQueued"
  /\ handleState[awaiting[c]] # "pending"
  /\ fetchArgs' = [fetchArgs EXCEPT ![c] = Append(@, CallArgs(c))]
  /\ pc' = [pc EXCEPT ![c] = IF handleState[awaiting[c]] = "ok"
                               THEN "fetchQueuedTry" ELSE "fetchQueuedCatch"]
  /\ UNCHANGED <<refreshingTokenPromise, refreshTokenState, handleState, installer, args,
                 awaiting, error, fetchOut, result, pendingAtInvoke, clearedAtFail,
                 classified>>
  /\ UNCHANGED coordFrame

\* line 22: the transport call issued inside the try block resolves with v.
QueuedTryResolves(c, v) ==
  /\ pc[c] = "fetchQueuedTry"
  /\ fetchOut' = [fetchOut EXCEPT ![c] = Append(@, v)]
  /\ result' = [result EXCEPT ![c] = v]
  /\ pc' = [pc EXCEPT ![c] = "resolved"]
  /\ UNCHANGED <<refreshingTokenPromise, refreshTokenState, handleState, installer,
                 args, awaiting, error, fetchArgs, pendingAtInvoke, clearedAtFail,
                 classified>>
  /\ UNCHANGED coordFrame

\* lines 22-26: the transport call issued inside the try block rejects with e;
\* the catch clause of line 23 catches it and issues fetch(url, options) again.
QueuedTryRejects(c, e) ==
  /\ pc[c] = "fetchQueuedTry"
  /\ fetchOut' = [fetchOut EXCEPT ![c] = Append(@, e)]
  /\ fetchArgs' = [fetchArgs EXCEPT ![c] = Append(@, CallArgs(c))]
  /\ pc' = [pc EXCEPT ![c] = "fetchQueuedCatch"]
  /\ UNCHANGED <<refreshingTokenPromise, refreshTokenState, handleState, installer,
                 args, awaiting, error, result, pendingAtInvoke, clearedAtFail,
                 classified>>
  /\ UNCHANGED coordFrame

\* line 26: the transport call issued by the catch clause settles with o; the
\* call returns or throws it.
QueuedCatchSettles(c, o) ==
  /\ pc[c] = "fetchQueuedCatch"
  /\ fetchOut' = [fetchOut EXCEPT ![c] = Append(@, o)]
  /\ result' = [result EXCEPT ![c] = o]
  /\ pc' = [pc EXCEPT ![c] = IF o \in TransportValues THEN "resolved" ELSE "rejected"]
  /\ UNCHANGED <<refreshingTokenPromise, refreshTokenState, handleState, installer,
                 args, awaiting, error, fetchArgs, pendingAtInvoke, clearedAtFail,
                 classified>>
  /\ UNCHANGED coordFrame

Next ==
  \/ \E c \in Calls, a \in Args : Invoke(c, a)
  \/ \E c \in Calls, v \in TransportValues : FirstFetchResolves(c, v)
  \/ \E c \in Calls, e \in TransportErrors : FirstFetchRejects(c, e)
  \/ \E h \in Calls, r \in {"ok"} \cup RefreshErrors : RefreshTokenSettles(h, r)
  \/ \E h \in Calls : ThenCallback(h)
  \/ \E h \in Calls : CatchCallback(h)
  \/ \E c \in Calls : ResumeAfterRefresh(c)
  \/ \E c \in Calls, v \in TransportValues : RetryResolves(c, v)
  \/ \E c \in Calls, e \in TransportErrors : RetryRejects(c, e)
  \/ \E c \in Calls : ResumeQueued(c)
  \/ \E c \in Calls, v \in TransportValues : QueuedTryResolves(c, v)
  \/ \E c \in Calls, e \in TransportErrors : QueuedTryRejects(c, e)
  \/ \E c \in Calls, o \in TransportValues \cup TransportErrors : QueuedCatchSettles(c, o)

Spec == Init /\ [][Next]_vars

\* ------------------------------------------- synchronously throwing transport
\* fetch(url, options) may throw before it returns a promise.  The throw is
\* raised where the call expression stands, so the code that follows runs in
\* the same step as the code that issued the call.

\* mutation of lines 30-32: the call expression stands outside the try block
InvokeFetchThrows_Uncaught(c, a, e) ==
  /\ pc[c] = "idle"
  /\ ~RefreshInProgress
  /\ args' = [args EXCEPT ![c] = a]
  /\ pendingAtInvoke' = [pendingAtInvoke EXCEPT ![c] = refreshingTokenPromise]
  /\ fetchArgs' = [fetchArgs EXCEPT ![c] = Append(@, a)]
  /\ fetchOut' = [fetchOut EXCEPT ![c] = Append(@, e)]
  /\ clearedAtFail' = [clearedAtFail EXCEPT ![c] = clearedHandles]
  /\ thrownSync' = thrownSync \cup {"first"}
  /\ result' = [result EXCEPT ![c] = e]
  /\ pc' = [pc EXCEPT ![c] = "rejected"]
  /\ UNCHANGED <<refreshTokenState, handleState, installer, refreshingTokenPromise,
                 awaiting, error, classified>>
  /\ UNCHANGED <<twinVars, jsonVars, mgrVars, envVars, hookVars>>

\* lines 17-61: the function is invoked with no handle installed and the
\* fetch of line 31 throws e: the catch clause of line 32 runs at once.
InvokeFetchThrows(c, a, e) ==
  /\ pc[c] = "idle"
  /\ ~RefreshInProgress
  /\ args' = [args EXCEPT ![c] = a]
  /\ pendingAtInvoke' = [pendingAtInvoke EXCEPT ![c] = refreshingTokenPromise]
  /\ fetchArgs' = [fetchArgs EXCEPT ![c] = Append(@, a)]
  /\ fetchOut' = [fetchOut EXCEPT ![c] = Append(@, e)]
  /\ error' = [error EXCEPT ![c] = e]
  /\ clearedAtFail' = [clearedAtFail EXCEPT ![c] = clearedHandles]
  /\ classified' = [classified EXCEPT ![c] = Append(@, e)]
  /\ thrownSync' = thrownSync \cup {"first"}
  /\ IF shouldRefreshToken(e)
       THEN /\ IF MustStartRefresh
                 THEN /\ refreshTokenState' = Append(refreshTokenState, "pending")
                      /\ handleState' = Append(handleState, "pending")
                      /\ installer' = Append(installer, c)
                      /\ refreshingTokenPromise' = Len(handleState) + 1
                 ELSE UNCHANGED <<refreshTokenState, handleState, installer,
                                  refreshingTokenPromise>>
            /\ awaiting' = [awaiting EXCEPT ![c] = refreshingTokenPromise']
            /\ pc' = [pc EXCEPT ![c] = "awaitRefresh"]
            /\ UNCHANGED result
       ELSE /\ result' = [result EXCEPT ![c] = e]
            /\ pc' = [pc EXCEPT ![c] = "rejected"]
            /\ UNCHANGED <<refreshTokenState, handleState, installer,
                           refreshingTokenPromise, awaiting>>
  /\ UNCHANGED <<twinVars, jsonVars, mgrVars, envVars, hookVars>>

\* lines 50-56: a call suspended at line 51 resumes after a resolved handle
\* and the fetch of line 53 throws e: the catch clause of line 54 throws `error`.
RetryThrows(c, e) ==
  /\ pc[c] = "awaitRefresh"
  /\ handleState[awaiting[c]] = "ok"
  /\ fetchArgs' = [fetchArgs EXCEPT ![c] = Append(@, CallArgs(c))]
  /\ fetchOut' = [fetchOut EXCEPT ![c] = Append(@, e)]
  /\ result' = [result EXCEPT ![c] = RethrownByCatch(c, e)]
  /\ pc' = [pc EXCEPT ![c] = "rejected"]
  /\ thrownSync' = thrownSync \cup {"retry"}
  /\ UNCHANGED <<refreshingTokenPromise, refreshTokenState, handleState, installer, args,
                 awaiting, error, pendingAtInvoke, clearedAtFail, classified>>
  /\ UNCHANGED <<twinVars, jsonVars, mgrVars, envVars, hookVars>>

\* lines 20-26: a call suspended at line 21 resumes after a resolved handle
\* and the fetch of line 22 throws e: the catch clause of line 23 issues the
\* call again at line 26, which returns a promise (o2 = "promise") or throws
\* o2 in turn, outside any try block.
QueuedTryThrows(c, e, o2) ==
  /\ pc[c] = "awaitQueued"
  /\ handleState[awaiting[c]] = "ok"
  /\ fetchArgs' = [fetchArgs EXCEPT ![c] = Append(Append(@, CallArgs(c)), CallArgs(c))]
  /\ IF o2 = "promise"
       THEN /\ fetchOut' = [fetchOut EXCEPT ![c] = Append(@, e)]
            /\ pc' = [pc EXCEPT ![c] = "fetchQueuedCatch"]
            /\ UNCHANGED result
       ELSE /\ fetchOut' = [fetchOut EXCEPT ![c] = Append(Append(@, e), o2)]
            /\ result' = [result EXCEPT ![c] = o2]
            /\ pc' = [pc EXCEPT ![c] = "rejected"]
  /\ thrownSync' = thrownSync \cup {"queued"}
  /\ UNCHANGED <<refreshingTokenPromise, refreshTokenState, handleState, installer, args,
                 awaiting, error, pendingAtInvoke, clearedAtFail, classified>>
  /\ UNCHANGED <<twinVars, jsonVars, mgrVars, envVars, hookVars>>

\* lines 22-26: the transport call of line 22 rejects with e; the catch
\* clause of line 23 issues the call again and that fetch throws e2.
QueuedTryRejectsCatchThrows(c, e, e2) ==
  /\ pc[c] = "fetchQueuedTry"
  /\ fetchArgs' = [fetchArgs EXCEPT ![c] = Append(@, CallArgs(c))]
  /\ fetchOut' = [fetchOut EXCEPT ![c] = Append(Append(@, e), e2)]
  /\ result' = [result EXCEPT ![c] = e2]
  /\ pc' = [pc EXCEPT ![c] = "rejected"]
  /\ thrownSync' = thrownSync \cup {"queued"}
  /\ UNCHANGED <<refreshingTokenPromise, refreshTokenState, handleState, installer, args,
                 awaiting, error, pendingAtInvoke, clearedAtFail, classified>>
  /\ UNCHANGED <<twinVars, jsonVars, mgrVars, envVars, hookVars>>

\* lines 23-26: a call suspended at line 21 resumes after a rejected handle
\* and the fetch of line 26 throws e, outside any try block: the call rejects with e.
QueuedCatchThrows(c, e) ==
  /\ pc[c] = "awaitQueued"
  /\ handleState[awaiting[c]] \in RefreshErrors
  /\ fetchArgs' = [fetchArgs EXCEPT ![c] = Append(@, CallArgs(c))]
  /\ fetchOut' = [fetchOut EXCEPT ![c] = Append(@, e)]
  /\ result' = [result EXCEPT ![c] = e]
  /\ pc' = [pc EXCEPT ![c] = "rejected"]
  /\ thrownSync' = thrownSync \cup {"queued"}
  /\ UNCHANGED <<refreshingTokenPromise, refreshTokenState, handleState, installer, args,
                 awaiting, error, pendingAtInvoke, clearedAtFail, classified>>
  /\ UNCHANGED <<twinVars, jsonVars, mgrVars, envVars, hookVars>>

\* input domains of the runs with a throwing transport: one argument pair,
\* one success value, one failure of each class
SyncArgs == {<<"/b", "POST">>}
SyncValues == {"V1"}
SyncErrors == {"E1", "N1"}

SyncNext ==
  \/ \E c \in Calls, a \in SyncArgs : Invoke(c, a)
  \/ \E c \in Calls, v \in SyncValues : FirstFetchResolves(c, v)
  \/ \E c \in Calls, e \in SyncErrors : FirstFetchRejects(c, e)
  \/ \E h \in Calls, r \in {"ok"} \cup RefreshErrors : RefreshTokenSettles(h, r)
  \/ \E h \in Calls : ThenCallback(h)
  \/ \E h \in Calls : CatchCallback(h)
  \/ \E c \in Calls : ResumeAfterRefresh(c)
  \/ \E c \in Calls, v \in SyncValues : RetryResolves(c, v)
  \/ \E c \in Calls, e \in SyncErrors : RetryRejects(c, e)
  \/ \E c \in Calls : ResumeQueued(c)
  \/ \E c \in Calls, v \in SyncValues : QueuedTryResolves(c, v)
  \/ \E c \in Calls, e \in SyncErrors : QueuedTryRejects(c, e)
  \/ \E c \in Calls, o \in SyncValues \cup SyncErrors : QueuedCatchSettles(c, o)
  \/ \E c \in Calls, a \in SyncArgs, e \in SyncErrors : InvokeFetchThrows(c, a, e)
  \/ \E c \in Calls, e \in SyncErrors : RetryThrows(c, e)
  \/ \E c \in Calls, e \in SyncErrors, o2 \in {"promise"} \cup SyncErrors : QueuedTryThrows(c, e, o2)
  \/ \E c \in Calls, e, e2 \in SyncErrors : QueuedTryRejectsCatchThrows(c, e, e2)
  \/ \E c \in Calls, e \in SyncErrors : QueuedCatchThrows(c, e)

SpecSync == Init /\ [][SyncNext]_vars

\* what a refreshToken() that throws instead of returning a promise throws
ThrownRefreshErrors == {"T1"}

\* lines 32-51: the first transport call rejects with an auth-classified e
\* while no handle is installed, and refreshToken() (line 38) throws r inside
\* the executor: the Promise constructor rejects the new promise with r, no
\* reaction is attached, and line 37 installs that rejected promise.
FirstFetchRejectsRefreshThrows(c, e, r) ==
  /\ pc[c] = "fetchFirst"
  /\ shouldRefreshToken(e)
  /\ MustStartRefresh
  /\ fetchOut' = [fetchOut EXCEPT ![c] = Append(@, e)]
  /\ error' = [error EXCEPT ![c] = e]
  /\ clearedAtFail' = [clearedAtFail EXCEPT ![c] = clearedHandles]
  /\ classified' = [classified EXCEPT ![c] = Append(@, e)]
  /\ refreshTokenState' = Append(refreshTokenState, r)
  /\ handleState' = Append(handleState, r)
  /\ installer' = Append(installer, c)
  /\ refreshingTokenPromise' = Len(handleState) + 1
  /\ awaiting' = [awaiting EXCEPT ![c] = Len(handleState) + 1]
  /\ pc' = [pc EXCEPT ![c] = "awaitRefresh"]
  /\ UNCHANGED <<args, fetchArgs, result, pendingAtInvoke>>
  /\ UNCHANGED coordFrame

RefreshThrowsNext ==
  \/ \E c \in Calls, a \in SyncArgs : Invoke(c, a)
  \/ \E c \in Calls, v \in SyncValues : FirstFetchResolves(c, v)
  \/ \E c \in Calls, e \in SyncErrors : FirstFetchRejects(c, e)
  \/ \E c \in Calls, e \in SyncErrors, r \in ThrownRefreshErrors :
       FirstFetchRejectsRefreshThrows(c, e, r)
  \/ \E h \in Calls, r \in {"ok"} \cup RefreshErrors : RefreshTokenSettles(h, r)
  \/ \E h \in Calls : ThenCallback(h)
  \/ \E h \in Calls : CatchCallback(h)
  \/ \E c \in Calls : ResumeAfterRefresh(c)
  \/ \E c \in Calls, v \in SyncValues : RetryResolves(c, v)
  \/ \E c \in Calls, e \in SyncErrors : RetryRejects(c, e)
  \/ \E c \in Calls : ResumeQueued(c)
  \/ \E c \in Calls, v \in SyncValues : QueuedTryResolves(c, v)
  \/ \E c \in Calls, e \in SyncErrors : QueuedTryRejects(c, e)
  \/ \E c \in Calls, o \in SyncValues \cup SyncErrors : QueuedCatchSettles(c, o)

\* the coordinator with a refreshToken that may throw when it is invoked
SpecRefreshThrows == Init /\ [][RefreshThrowsNext]_vars

\* every step but the invocation of a wrapped call: the settlement of a
\* transport call or of refreshToken(), and the jobs that the event loop runs
\* once a promise has settled
Progress ==
  \/ \E c \in Calls, v \in SyncValues : FirstFetchResolves(c, v)
  \/ \E c \in Calls, e \in SyncErrors : FirstFetchRejects(c, e)
  \/ \E h \in Calls, r \in {"ok"} \cup RefreshErrors : RefreshTokenSettles(h, r)
  \/ \E h \in Calls : ThenCallback(h)
  \/ \E h \in Calls : CatchCallback(h)
  \/ \E c \in Calls : ResumeAfterRefresh(c)
  \/ \E c \in Calls, v \in SyncValues : RetryResolves(c, v)
  \/ \E c \in Calls, e \in SyncErrors : RetryRejects(c, e)
  \/ \E c \in Calls : ResumeQueued(c)
  \/ \E c \in Calls, v \in SyncValues : QueuedTryResolves(c, v)
  \/ \E c \in Calls, e \in SyncErrors : QueuedTryRejects(c, e)
  \/ \E c \in Calls, o \in SyncValues \cup SyncErrors : QueuedCatchSettles(c, o)
  \/ \E c \in Calls, e \in SyncErrors : RetryThrows(c, e)
  \/ \E c \in Calls, e \in SyncErrors, o2 \in {"promise"} \cup SyncErrors : QueuedTryThrows(c, e, o2)
  \/ \E c \in Calls, e, e2 \in SyncErrors : QueuedTryRejectsCatchThrows(c, e, e2)
  \/ \E c \in Calls, e \in SyncErrors : QueuedCatchThrows(c, e)

\* the coordinator with a transport and a refreshToken that always settle and
\* an event loop that runs every job: no step of Progress stays enabled forever
SpecLive == Init /\ [][SyncNext]_vars /\ WF_vars(Progress)

\* ------------------------------------------------- two coordinator instances
\* Every configureRefreshFetch call runs line 15 anew, so each returned
\* function closes over a refreshingTokenPromise of its own.  The model keeps
\* one slot per instance; transport outcomes are reduced to their class.
TransportOutcomes == {"ok", "auth", "other"}

\* mutation of line 15: the variable is declared at module level, one slot for all instances
Slot_ModuleLevel(i) == 1

\* line 15: let refreshingTokenPromise, local to the configureRefreshFetch call of instance i
Slot(i) == i

\* The function returned for instance i is invoked (lines 17-31).
T_Invoke(c, i) ==
  /\ t_pc[c] = "idle"
  /\ t_inst' = [t_inst EXCEPT ![c] = i]
  /\ IF t_handle[Slot(i)] # Null
       THEN /\ t_pc' = [t_pc EXCEPT ![c] = "awaitQueued"]
            /\ t_await' = [t_await EXCEPT ![c] = t_handle[Slot(i)]]
       ELSE /\ t_pc' = [t_pc EXCEPT ![c] = "fetchFirst"]
            /\ UNCHANGED t_await
  /\ UNCHANGED <<t_handle, t_hstate, t_hinst>>
  /\ UNCHANGED twinFrame

\* lines 30-61: the first transport call of c settles with an outcome of class o.
T_FirstFetchSettles(c, o) ==
  /\ t_pc[c] = "fetchFirst"
  /\ IF o = "auth"
       THEN /\ IF t_handle[Slot(t_inst[c])] = Null
                 THEN /\ t_hstate' = Append(t_hstate, "pending")
                      /\ t_hinst' = Append(t_hinst, t_inst[c])
                      /\ t_handle' = [t_handle EXCEPT ![Slot(t_inst[c])] = Len(t_hstate) + 1]
                 ELSE UNCHANGED <<t_handle, t_hstate, t_hinst>>
            /\ t_await' = [t_await EXCEPT ![c] = t_handle'[Slot(t_inst[c])]]
            /\ t_pc' = [t_pc EXCEPT ![c] = "awaitRefresh"]
       ELSE /\ t_pc' = [t_pc EXCEPT ![c] = "done"]
            /\ UNCHANGED <<t_handle, t_hstate, t_hinst, t_await>>
  /\ UNCHANGED t_inst
  /\ UNCHANGED twinFrame

\* lines 39-46: refreshToken() of handle h has settled with r and the .then
\* or .catch callback runs: the slot is cleared and the handle settled.
T_Callback(h, r) ==
  /\ h \in 1..Len(t_hstate)
  /\ t_hstate[h] = "pending"
  /\ t_hstate' = [t_hstate EXCEPT ![h] = r]
  /\ t_handle' = [t_handle EXCEPT ![Slot(t_hinst[h])] = Null]
  /\ UNCHANGED <<t_hinst, t_pc, t_inst, t_await>>
  /\ UNCHANGED twinFrame

\* lines 50-57: a call suspended at line 51 resumes.
T_ResumeAfterRefresh(c) ==
  /\ t_pc[c] = "awaitRefresh"
  /\ t_hstate[t_await[c]] # "pending"
  /\ t_pc' = [t_pc EXCEPT ![c] = IF t_hstate[t_await[c]] = "ok" THEN "fetchRetry" ELSE "done"]
  /\ UNCHANGED <<t_handle, t_hstate, t_hinst, t_inst, t_await>>
  /\ UNCHANGED twinFrame

\* lines 53-57: the retry settles and the call with it.
T_RetrySettles(c, o) ==
  /\ t_pc[c] = "fetchRetry"
  /\ t_pc' = [t_pc EXCEPT ![c] = "done"]
  /\ UNCHANGED <<t_handle, t_hstate, t_hinst, t_inst, t_await>>
  /\ UNCHANGED twinFrame

\* lines 20-27: a call suspended at line 21 resumes and issues its transport call.
T_ResumeQueued(c) ==
  /\ t_pc[c] = "awaitQueued"
  /\ t_hstate[t_await[c]] # "pending"
  /\ t_pc' = [t_pc EXCEPT ![c] = IF t_hstate[t_await[c]] = "ok"
                                   THEN "fetchQueuedTry" ELSE "fetchQueuedCatch"]
  /\ UNCHANGED <<t_handle, t_hstate, t_hinst, t_inst, t_await>>
  /\ UNCHANGED twinFrame

\* lines 22-26: the transport call of line 22 settles; a failure is caught
\* and line 26 issues the call again.
T_QueuedTrySettles(c, o) ==
  /\ t_pc[c] = "fetchQueuedTry"
  /\ t_pc' = [t_pc EXCEPT ![c] = IF o = "ok" THEN "done" ELSE "fetchQueuedCatch"]
  /\ UNCHANGED <<t_handle, t_hstate, t_hinst, t_inst, t_await>>
  /\ UNCHANGED twinFrame

\* line 26: the transport call of the catch clause settles and the call with it.
T_QueuedCatchSettles(c, o) ==
  /\ t_pc[c] = "fetchQueuedCatch"
  /\ t_pc' = [t_pc EXCEPT ![c] = "done"]
  /\ UNCHANGED <<t_handle, t_hstate, t_hinst, t_inst, t_await>>
  /\ UNCHANGED twinFrame

TwinNext ==
  \/ \E c \in Calls, i \in Instances : T_Invoke(c, i)
  \/ \E c \in Calls, o \in TransportOutcomes : T_FirstFetchSettles(c, o)
  \/ \E h \in Calls, r \in {"ok", "failed"} : T_Callback(h, r)
  \/ \E c \in Calls : T_ResumeAfterRefresh(c)
  \/ \E c \in Calls, o \in TransportOutcomes : T_RetrySettles(c, o)
  \/ \E c \in Calls : T_ResumeQueued(c)
  \/ \E c \in Calls, o \in TransportOutcomes : T_QueuedTrySettles(c, o)
  \/ \E c \in Calls, o \in TransportOutcomes : T_QueuedCatchSettles(c, o)

SpecTwin == Init /\ [][TwinNext]_vars

\* ------------------------------------------------------------- fetchJSON
\* HTTP statuses of the responses considered
Statuses == {200, 204, 404, 502}
\* values of the content-type header; "absent" is headers.get returning null
ContentTypes == {"absent", "application/json", "application/json; charset=utf-8", "text/plain"}
\* body texts: empty, two JSON documents, two texts that are not JSON
BodyTexts == {"", "{\"ok\":true}", "{\"error\":\"Not found\"}", "{ invalid json }", "<html>Bad Gateway</html>"}

\* Response objects: ok is the flag the fetch standard derives from the status
Responses ==
  {[ok |-> (st \in {200, 204}), status |-> st, contentType |-> ct, text |-> tx] :
     st \in Statuses, ct \in ContentTypes, tx \in BodyTexts}

\* the options a caller passes: with or without a body, with or without headers of its own
OptionSets ==
  {[hasBody |-> b, headers |-> h] :
     b \in BOOLEAN, h \in {{}, {"Authorization"}, {"Content-Type"}}}

\* lines 22-31: options unchanged without a body, otherwise merged over the default header
FetchOptions(options) ==
  IF ~options.hasBody THEN options
  ELSE [options EXCEPT !.headers = {"Content-Type"} \cup options.headers]

\* line 44: contentType?.includes('json') ?? false
IsJSON(contentType) ==
  contentType \in {"application/json", "application/json; charset=utf-8"}

\* JSON.parse on the body texts: TRUE when it returns, FALSE when it throws
Parses(text) == text \in {"{\"ok\":true}", "{\"error\":\"Not found\"}"}

\* JSON.parse on the body texts that parse
JSONParse(text) ==
  IF text = "{\"ok\":true}" THEN <<"object", [ok |-> TRUE]>>
  ELSE <<"object", [error |-> "Not found"]>>

\* lines 57-67: tryParseJSON, as <<"return", value>> or <<"throw", error>>
tryParseJSON(json) ==
  IF json = "" THEN <<"return", <<"null">>>>
  ELSE IF Parses(json) THEN <<"return", JSONParse(json)>>
  ELSE <<"throw", [kind |-> "Error", message |-> "Failed to parse unexpected JSON response", text |-> json]>>

\* lines 42-52: getResponseBody once response.clone().text() has resolved
getResponseBody(response) ==
  IF IsJSON(response.contentType)
    THEN tryParseJSON(response.text)
    ELSE <<"return", <<"text", response.text>>>>

\* lines 92-98: checkStatus, as <<"return", value>> or <<"throw", error>>
checkStatus(response, body) ==
  IF response.ok
    THEN <<"return", [kind |-> "value", response |-> response, body |-> body]>>
    ELSE <<"throw", [kind |-> "ResponseError", status |-> response.status,
                     response |-> response, body |-> body]>>

\* lines 17-33: fetchJSON is called and awaits the global fetch
J_Call(options) ==
  /\ j_pc = "idle"
  /\ j_options' = options
  /\ j_sent' = FetchOptions(options)
  /\ j_pc' = "fetching"
  /\ UNCHANGED <<j_response, j_result>>
  /\ UNCHANGED jsonFrame

\* line 33: the global fetch rejects; fetchJSON rejects with the same error
J_FetchRejects ==
  /\ j_pc = "fetching"
  /\ j_result' = [kind |-> "TypeError", message |-> "Network request failed"]
  /\ j_pc' = "rejected"
  /\ UNCHANGED <<j_options, j_sent, j_response>>
  /\ UNCHANGED jsonFrame

\* lines 33-34, 43-50: the global fetch resolves with response; the body text is requested
J_FetchResolves(response) ==
  /\ j_pc = "fetching"
  /\ j_response' = response
  /\ j_pc' = "reading"
  /\ UNCHANGED <<j_options, j_sent, j_result>>
  /\ UNCHANGED jsonFrame

\* lines 34-36, 46-51: response.clone().text() resolves; the body is parsed
\* and the status checked
J_TextResolves ==
  /\ j_pc = "reading"
  /\ LET body == getResponseBody(j_response)
         out == IF body[1] = "throw" THEN body ELSE checkStatus(j_response, body[2])
     IN /\ j_result' = out[2]
        /\ j_pc' = IF out[1] = "return" THEN "resolved" ELSE "rejected"
  /\ UNCHANGED <<j_options, j_sent, j_response>>
  /\ UNCHANGED jsonFrame

JsonNext ==
  \/ \E options \in OptionSets : J_Call(options)
  \/ J_FetchRejects
  \/ \E response \in Responses : J_FetchResolves(response)
  \/ J_TextResolves

SpecJSON == Init /\ [][JsonNext]_vars

\* ------------------------------------------------- the listener managers
Listeners == 1..NumListeners

\* the AppState type (part_000 line 9 ff.)
AppStates == {"active", "background", "inactive", "unknown"}

\* what NetInfo reports: each field may be nullish
NetInfoStates ==
  [isConnected : {"true", "false", "null"},
   type : {"wifi", "null"},
   isInternetReachable : {"true", "null"}]

\* x ?? d
Coalesce(x, d) == IF x = "null" THEN d ELSE x

\* updateNetworkState lines 195-199
NetworkStateOf(netInfoState) ==
  [isConnected |-> Coalesce(netInfoState.isConnected, "true"),
   connectionType |-> Coalesce(netInfoState.type, "unknown"),
   isInternetReachable |-> Coalesce(netInfoState.isInternetReachable, "null")]

\* the currentState field initialisers (lines 30 and 145-149)
InitialNetworkState ==
  [isConnected |-> "true", connectionType |-> "unknown", isInternetReachable |-> "null"]

\* mutation of lines 201-204: every report counts as a change
hasChanged_Always(newState, current) == TRUE

\* the change test of updateNetworkState (lines 201-204)
hasChanged(newState, current) ==
  \/ newState.isConnected # current.isConnected
  \/ newState.connectionType # current.connectionType
  \/ newState.isInternetReachable # current.isInternetReachable

\* Array.prototype.indexOf, 1-based, 0 for "not found"
IndexOf(ls, l) ==
  IF \E i \in 1..Len(ls) : ls[i] = l
  THEN CHOOSE i \in 1..Len(ls) : ls[i] = l /\ \A j \in 1..(i - 1) : ls[j] # l
  ELSE 0

\* ls.splice(index, 1)
Splice(ls, index) == [i \in 1..(Len(ls) - 1) |-> IF i < index THEN ls[i] ELSE ls[i + 1]]

\* mutation of lines 82-85: the unsubscribe function removes nothing
Unsubscribed_Never(ls, l) == ls

\* the body of the unsubscribe function returned by addListener(l) (lines 82-85)
Unsubscribed(ls, l) ==
  LET index == IndexOf(ls, l)
  IN IF index > 0 THEN Splice(ls, index) ELSE ls

\* the calls that application code, or a listener while it runs, can make
ManagerCalls ==
  [op : {"addListener", "unsubscribe"}, l : Listeners] \cup {[op |-> "destroy", l |-> 0]}

\* the call of an unsubscribe function known to be from before the last destroy
StaleCalls == [op : {"unsubscribeStale"}, l : Listeners]

\* what a listener does when it is invoked: return, throw, or make one call
\* on the manager and return
Reactions == ManagerCalls \cup {[op |-> "return", l |-> 0], [op |-> "throw", l |-> 0]}

CallEnabled(call) ==
  /\ call.op = "addListener" => Len(m_listeners) < MaxRegistered
  /\ call.op = "unsubscribe" => call.l \in m_issued
  /\ call.op = "unsubscribeStale" => call.l \in m_stale

\* the effect of one call on this.listeners, and on the array of a running forEach
ApplyCall(call) ==
  /\ m_listeners' = CASE call.op = "addListener" -> Append(m_listeners, call.l)
                      [] call.op \in {"unsubscribe", "unsubscribeStale"} ->
                           Unsubscribed(m_listeners, call.l)
                      [] call.op = "destroy" -> <<>>
  /\ m_issued' = IF call.op = "addListener" THEN m_issued \cup {call.l} ELSE m_issued
  /\ m_stale' = IF call.op = "destroy" THEN m_stale \cup m_issued ELSE m_stale
  /\ m_staleHit' = (m_staleHit \/ (call.op = "unsubscribeStale" /\ m_listeners' # m_listeners))
  /\ m_alias' = (m_alias /\ call.op # "destroy")
  /\ m_iter' = IF m_alias /\ call.op # "destroy" THEN m_listeners' ELSE m_iter
  /\ m_live' = CASE call.op = "addListener" -> [m_live EXCEPT ![call.l] = @ + 1]
                 [] call.op \in {"unsubscribe", "unsubscribeStale"} ->
                      [m_live EXCEPT ![call.l] = IF @ > 0 THEN @ - 1 ELSE 0]
                 [] call.op = "destroy" -> [l \in Listeners |-> 0]
  /\ m_unsubbed' = IF call.op \in {"unsubscribe", "unsubscribeStale"}
                   THEN m_unsubbed \cup {call.l} ELSE m_unsubbed

\* new ReactNativeAppStateManager() / new ReactNativeNetworkManager()
M_Construct(kind, initial) ==
  /\ m_kind = "none"
  /\ m_kind' = kind
  /\ m_current' = IF kind = "app" THEN initial ELSE InitialNetworkState
  /\ UNCHANGED <<m_listeners, m_issued, m_dispatch, m_iter, m_alias, m_k, m_len, m_state,
                 m_snapshot, m_invoked, m_caught, mgrHist>>
  /\ UNCHANGED mgrFrame

\* application code calls addListener, an unsubscribe function or destroy
M_Call(call) ==
  /\ m_kind # "none"
  /\ m_dispatch = "idle"
  /\ CallEnabled(call)
  /\ ApplyCall(call)
  /\ m_reported' = <<>>
  /\ UNCHANGED <<m_kind, m_current, m_dispatch, m_k, m_len, m_state, m_snapshot, m_invoked,
                 m_caught, m_thrown, m_unsubAtStart, m_reentered>>
  /\ UNCHANGED mgrFrame

\* notifyListeners(state) up to the start of its forEach (lines 92-93, 230-231)
notifyListeners(state) ==
  /\ m_dispatch' = "running"
  /\ m_iter' = m_listeners
  /\ m_alias' = TRUE
  /\ m_k' = 0
  /\ m_len' = Len(m_listeners)
  /\ m_state' = state
  /\ m_snapshot' = m_listeners
  /\ m_invoked' = <<>>
  /\ m_caught' = <<>>
  /\ m_unsubAtStart' = m_unsubbed
  /\ m_reentered' = FALSE

\* the platform reports an app state (lines 67-72)
handleAppStateChange(nextAppState) ==
  /\ m_kind = "app"
  /\ m_dispatch = "idle"
  /\ IF nextAppState # m_current
     THEN /\ m_current' = nextAppState
          /\ notifyListeners(nextAppState)
     ELSE UNCHANGED <<m_current, m_dispatch, m_iter, m_alias, m_k, m_len, m_state,
                      m_snapshot, m_invoked, m_caught, m_unsubAtStart, m_reentered>>
  /\ m_reported' = <<nextAppState>>
  /\ UNCHANGED <<m_kind, m_listeners, m_issued, m_thrown, m_live, m_unsubbed, m_stale,
                 m_staleHit>>
  /\ UNCHANGED mgrFrame

\* NetInfo reports a network state (lines 194-210)
updateNetworkState(netInfoState) ==
  /\ m_kind = "net"
  /\ m_dispatch = "idle"
  /\ LET newState == NetworkStateOf(netInfoState)
     IN IF hasChanged(newState, m_current)
        THEN /\ m_current' = newState
             /\ notifyListeners(newState)
        ELSE UNCHANGED <<m_current, m_dispatch, m_iter, m_alias, m_k, m_len, m_state,
                         m_snapshot, m_invoked, m_caught, m_unsubAtStart, m_reentered>>
  /\ m_reported' = <<netInfoState>>
  /\ UNCHANGED <<m_kind, m_listeners, m_issued, m_thrown, m_live, m_unsubbed, m_stale,
                 m_staleHit>>
  /\ UNCHANGED mgrFrame

\* forEach has no further element to visit: its index reached the length it
\* read at the start, or the array has become shorter than the index
ForEachDone == m_k >= m_len \/ m_k >= Len(m_iter)

\* mutation of lines 94-98: no try/catch around listener(state), the error of
\* a throwing listener leaves forEach and notifyListeners
M_Listener_Uncaught(reaction) ==
  /\ m_dispatch = "running"
  /\ ~ForEachDone
  /\ m_invoked' = Append(m_invoked, <<m_iter[m_k + 1], m_state>>)
  /\ IF reaction \in ManagerCalls
     THEN CallEnabled(reaction) /\ ApplyCall(reaction)
     ELSE UNCHANGED <<m_listeners, m_issued, m_alias, m_iter, m_live, m_unsubbed, m_stale,
                      m_staleHit>>
  /\ m_reentered' = (m_reentered \/ reaction \in ManagerCalls)
  /\ m_reported' = <<>>
  /\ m_k' = m_k + 1
  /\ m_thrown' = IF reaction.op = "throw" THEN {m_iter[m_k + 1]} ELSE m_thrown
  /\ m_dispatch' = IF reaction.op = "throw" THEN "idle" ELSE m_dispatch
  /\ UNCHANGED <<m_kind, m_current, m_len, m_state, m_snapshot, m_caught, m_unsubAtStart>>
  /\ UNCHANGED mgrFrame

\* forEach invokes the callback on the element at its index: the listener
\* runs, returns or throws (caught and logged, lines 93-99), or first makes
\* one call on the manager
M_Listener(reaction) ==
  /\ m_dispatch = "running"
  /\ ~ForEachDone
  /\ LET listener == m_iter[m_k + 1]
     IN /\ m_invoked' = Append(m_invoked, <<listener, m_state>>)
        /\ m_caught' = IF reaction.op = "throw" THEN Append(m_caught, listener) ELSE m_caught
  /\ IF reaction \in ManagerCalls
     THEN CallEnabled(reaction) /\ ApplyCall(reaction)
     ELSE UNCHANGED <<m_listeners, m_issued, m_alias, m_iter, m_live, m_unsubbed, m_stale,
                      m_staleHit>>
  /\ m_reentered' = (m_reentered \/ reaction \in ManagerCalls)
  /\ m_reported' = <<>>
  /\ m_k' = m_k + 1
  /\ UNCHANGED <<m_kind, m_current, m_dispatch, m_len, m_state, m_snapshot, m_thrown,
                 m_unsubAtStart>>
  /\ UNCHANGED mgrFrame

\* forEach and notifyListeners return to the platform
M_Return ==
  /\ m_dispatch = "running"
  /\ ForEachDone
  /\ m_dispatch' = "idle"
  /\ m_iter' = <<>>
  /\ m_alias' = FALSE
  /\ m_k' = 0
  /\ m_len' = 0
  /\ m_snapshot' = <<>>
  /\ m_invoked' = <<>>
  /\ m_caught' = <<>>
  /\ m_unsubAtStart' = {}
  /\ m_reentered' = FALSE
  /\ m_reported' = <<>>
  /\ UNCHANGED <<m_kind, m_current, m_listeners, m_issued, m_state, m_thrown, m_live,
                 m_unsubbed, m_stale, m_staleHit>>
  /\ UNCHANGED mgrFrame

MgrNext ==
  \/ \E initial \in AppStates : M_Construct("app", initial)
  \/ M_Construct("net", InitialNetworkState)
  \/ \E call \in ManagerCalls : M_Call(call)
  \/ \E nextAppState \in AppStates : handleAppStateChange(nextAppState)
  \/ \E netInfoState \in NetInfoStates : updateNetworkState(netInfoState)
  \/ \E reaction \in Reactions : M_Listener(reaction)
  \/ M_Return

SpecMgr == Init /\ [][MgrNext]_vars

\* the app-state manager when application code also keeps, and calls, the
\* unsubscribe functions it obtained before a destroy
DestroyNext ==
  \/ \E initial \in AppStates : M_Construct("app", initial)
  \/ \E call \in ManagerCalls \cup StaleCalls : M_Call(call)
  \/ \E nextAppState \in AppStates : handleAppStateChange(nextAppState)
  \/ \E reaction \in Reactions : M_Listener(reaction)
  \/ M_Return

SpecDestroy == Init /\ [][DestroyNext]_vars

\* -------------------------------------------------- environment detection
\* The runtime globals, each either not declared at all or declared with one
\* of the values that the checks of lines 34-89 tell apart:
\*   navigator: product 'ReactNative' or another product
\*   global:    with HermesInternal, with __DEV__, or with neither
\*   process:   with versions.node or without
\*   window:    declared together with document, or neither
\*   require:   resolves 'react-native-mmkv' or fails to
Globals ==
  [navigator : {"undeclared", "ReactNative", "other"},
   global : {"undeclared", "plain", "Hermes", "DEV"},
   process : {"undeclared", "node", "other"},
   window : {"undeclared", "declared"},
   require : {"undeclared", "mmkv", "nommkv"}]

\* lines 34-51: the React Native checks, in order
DetectsReactNative(g) ==
  \/ g.navigator = "ReactNative"
  \/ g.global = "Hermes"
  \/ g.global = "DEV"

\* a ReferenceError leaves detectEnvironment: line 46 reads global.__DEV__
\* with no typeof guard of its own once lines 34-42 did not match, and
\* line 55 reads process, both of which may be undeclared
DetectThrows(g) ==
  \/ g.navigator # "ReactNative" /\ g.global = "undeclared"
  \/ g.process = "undeclared"

\* lines 26-89: the fields of the result
Detect(g) ==
  LET rn == DetectsReactNative(g)
  IN [isReactNative |-> rn,
      isNode |-> (g.process = "node" /\ ~rn),
      isBrowser |-> (g.window = "declared" /\ ~rn),
      supportsMMKV |-> (rn /\ g.require = "mmkv")]

\* the test harness or the host changes the runtime globals
E_SetGlobals(g) ==
  /\ g # e_globals
  /\ e_globals' = g
  /\ e_outcome' = "none"
  /\ e_result' = <<>>
  /\ UNCHANGED <<cachedEnvironment, e_created, e_first>>
  /\ UNCHANGED envFrame

\* mutation of lines 22-24: the cache is never consulted
CacheHit_Never == FALSE

\* line 22
CacheHit == cachedEnvironment # <<>>

\* detectEnvironment() (lines 20-95)
E_detectEnvironment ==
  /\ IF CacheHit
     THEN /\ e_outcome' = "returned"
          /\ e_result' = cachedEnvironment
          /\ e_first' = IF e_first = 0 THEN cachedEnvironment[1].id ELSE e_first
          /\ UNCHANGED <<cachedEnvironment, e_created>>
     ELSE IF DetectThrows(e_globals)
     THEN /\ e_outcome' = "threw"
          /\ e_result' = <<>>
          /\ UNCHANGED <<cachedEnvironment, e_created, e_first>>
     ELSE /\ e_created < MaxDetections
          /\ LET env == [id |-> e_created + 1, fields |-> Detect(e_globals)]
             IN /\ cachedEnvironment' = <<env>>
                /\ e_result' = <<env>>
          /\ e_created' = e_created + 1
          /\ e_outcome' = "returned"
          /\ e_first' = IF e_first = 0 THEN e_created + 1 ELSE e_first
  /\ UNCHANGED e_globals
  /\ UNCHANGED envFrame

\* clearEnvironmentCache() (lines 101-103)
E_clearEnvironmentCache ==
  /\ cachedEnvironment' = <<>>
  /\ e_first' = 0
  /\ e_outcome' = "none"
  /\ e_result' = <<>>
  /\ UNCHANGED <<e_globals, e_created>>
  /\ UNCHANGED envFrame

EnvNext ==
  \/ \E g \in Globals : E_SetGlobals(g)
  \/ E_detectEnvironment
  \/ E_clearEnvironmentCache

SpecEnv == Init /\ [][EnvNext]_vars

\* --------------------------------------------------------- useRefreshFetch
\* enhancedConfiguration (lines 128-131) is a new object on every render, so
\* the useCallback of lines 133-136 keeps the function that
\* configureRefreshFetch made on that render: every render has a coordinator
\* of its own, while refreshingRef belongs to the hook instance.
Renders == Instances

\* mutation of lines 111-113: no guard, every call invokes configuration.refreshToken()
RefGuard_Never == FALSE

\* line 111: if (refreshingRef.current)
RefGuard == h_ref

\* the configuration.refreshToken() invocation that holds refreshingRef
Holder ==
  LET hs == {h \in 1..Len(hk_under) : hk_under[h] # 0 /\ hk_enh[h] = "pending"}
  IN IF hs = {} THEN 0 ELSE hk_under[CHOOSE h \in hs : TRUE]

\* the fetch function of render i is invoked (part_002 lines 17-31)
H_Invoke(c, i) ==
  /\ hc_pc[c] = "idle"
  /\ hc_inst' = [hc_inst EXCEPT ![c] = i]
  /\ IF h_handle[i] # Null
       THEN /\ hc_pc' = [hc_pc EXCEPT ![c] = "awaitQueued"]
            /\ hc_await' = [hc_await EXCEPT ![c] = h_handle[i]]
       ELSE /\ hc_pc' = [hc_pc EXCEPT ![c] = "fetchFirst"]
            /\ UNCHANGED hc_await
  /\ UNCHANGED <<h_ref, h_under, h_handle, hk_inst, hk_under, hk_seen, hk_enh, hk_state>>
  /\ UNCHANGED hookFrame

\* part_002 lines 30-61: the first transport call of c settles with an outcome
\* of class o. On an auth-classified failure with no handle installed in the
\* coordinator of c's render, enhancedRefreshToken() is invoked (line 38):
\* it returns at once when refreshingRef is set (part_001 lines 111-113), else
\* it sets refreshingRef and invokes configuration.refreshToken() (115-119).
H_FirstFetchSettles(c, o) ==
  /\ hc_pc[c] = "fetchFirst"
  /\ IF o = "auth"
       THEN /\ IF h_handle[hc_inst[c]] = Null
                 THEN /\ hk_inst' = Append(hk_inst, hc_inst[c])
                      /\ hk_state' = Append(hk_state, "pending")
                      /\ h_handle' = [h_handle EXCEPT ![hc_inst[c]] = Len(hk_state) + 1]
                      /\ IF RefGuard
                           THEN /\ hk_under' = Append(hk_under, 0)
                                /\ hk_seen' = Append(hk_seen, Holder)
                                /\ hk_enh' = Append(hk_enh, "ok")
                                /\ UNCHANGED <<h_ref, h_under>>
                           ELSE /\ h_ref' = TRUE
                                /\ h_under' = Append(h_under, "pending")
                                /\ hk_under' = Append(hk_under, Len(h_under) + 1)
                                /\ hk_seen' = Append(hk_seen, Len(h_under) + 1)
                                /\ hk_enh' = Append(hk_enh, "pending")
                 ELSE UNCHANGED <<h_ref, h_under, h_handle, hk_inst, hk_under, hk_seen,
                                  hk_enh, hk_state>>
            /\ hc_await' = [hc_await EXCEPT ![c] = h_handle'[hc_inst[c]]]
            /\ hc_pc' = [hc_pc EXCEPT ![c] = "awaitRefresh"]
       ELSE /\ hc_pc' = [hc_pc EXCEPT ![c] = "done"]
            /\ UNCHANGED <<h_ref, h_under, h_handle, hk_inst, hk_under, hk_seen, hk_enh,
                           hk_state, hc_await>>
  /\ UNCHANGED hc_inst
  /\ UNCHANGED hookFrame

\* the promise of a configuration.refreshToken() invocation settles
H_UnderlyingSettles(u, r) ==
  /\ u \in 1..Len(h_under)
  /\ h_under[u] = "pending"
  /\ h_under' = [h_under EXCEPT ![u] = r]
  /\ UNCHANGED <<h_ref, h_handle, hk_inst, hk_under, hk_seen, hk_enh, hk_state, hc_pc,
                 hc_inst, hc_await>>
  /\ UNCHANGED hookFrame

\* part_001 lines 119-125: enhancedRefreshToken resumes after its await; the
\* finally block resets refreshingRef, and its promise settles as the
\* invocation did
H_Finally(h) ==
  /\ h \in 1..Len(hk_enh)
  /\ hk_under[h] # 0
  /\ hk_enh[h] = "pending"
  /\ h_under[hk_under[h]] # "pending"
  /\ h_ref' = FALSE
  /\ hk_enh' = [hk_enh EXCEPT ![h] = h_under[hk_under[h]]]
  /\ UNCHANGED <<h_under, h_handle, hk_inst, hk_under, hk_seen, hk_state, hc_pc, hc_inst,
                 hc_await>>
  /\ UNCHANGED hookFrame

\* part_002 lines 39-46: the .then or .catch reaction to the settled
\* enhancedRefreshToken() promise clears the handle and settles it
H_Callback(h) ==
  /\ h \in 1..Len(hk_state)
  /\ hk_state[h] = "pending"
  /\ hk_enh[h] # "pending"
  /\ hk_state' = [hk_state EXCEPT ![h] = hk_enh[h]]
  /\ h_handle' = [h_handle EXCEPT ![hk_inst[h]] = Null]
  /\ UNCHANGED <<h_ref, h_under, hk_inst, hk_under, hk_seen, hk_enh, hc_pc, hc_inst,
                 hc_await>>
  /\ UNCHANGED hookFrame

\* part_002 lines 50-57: a call suspended at line 51 resumes
H_ResumeAfterRefresh(c) ==
  /\ hc_pc[c] = "awaitRefresh"
  /\ hk_state[hc_await[c]] # "pending"
  /\ hc_pc' = [hc_pc EXCEPT ![c] = IF hk_state[hc_await[c]] = "ok"
                                     THEN "fetchRetry" ELSE "done"]
  /\ UNCHANGED <<h_ref, h_under, h_handle, hk_inst, hk_under, hk_seen, hk_enh, hk_state,
                 hc_inst, hc_await>>
  /\ UNCHANGED hookFrame

\* part_002 lines 53-57: the retry settles and the call with it
H_RetrySettles(c, o) ==
  /\ hc_pc[c] = "fetchRetry"
  /\ hc_pc' = [hc_pc EXCEPT ![c] = "retried"]
  /\ UNCHANGED <<h_ref, h_under, h_handle, hk_inst, hk_under, hk_seen, hk_enh, hk_state,
                 hc_inst, hc_await>>
  /\ UNCHANGED hookFrame

\* part_002 lines 20-27: a call suspended at line 21 resumes and issues its
\* transport call
H_ResumeQueued(c) ==
  /\ hc_pc[c] = "awaitQueued"
  /\ hk_state[hc_await[c]] # "pending"
  /\ hc_pc' = [hc_pc EXCEPT ![c] = IF hk_state[hc_await[c]] = "ok"
                                     THEN "fetchQueuedTry" ELSE "fetchQueuedCatch"]
  /\ UNCHANGED <<h_ref, h_under, h_handle, hk_inst, hk_under, hk_seen, hk_enh, hk_state,
                 hc_inst, hc_await>>
  /\ UNCHANGED hookFrame

\* part_002 lines 22-26: the transport call of line 22 settles; a failure is
\* caught and line 26 issues the call again
H_QueuedTrySettles(c, o) ==
  /\ hc_pc[c] = "fetchQueuedTry"
  /\ hc_pc' = [hc_pc EXCEPT ![c] = IF o = "ok" THEN "done" ELSE "fetchQueuedCatch"]
  /\ UNCHANGED <<h_ref, h_under, h_handle, hk_inst, hk_under, hk_seen, hk_enh, hk_state,
                 hc_inst, hc_await>>
  /\ UNCHANGED hookFrame

\* part_002 line 26: the transport call of the catch clause settles and the
\* call with it
H_QueuedCatchSettles(c, o) ==
  /\ hc_pc[c] = "fetchQueuedCatch"
  /\ hc_pc' = [hc_pc EXCEPT ![c] = "done"]
  /\ UNCHANGED <<h_ref, h_under, h_handle, hk_inst, hk_under, hk_seen, hk_enh, hk_state,
                 hc_inst, hc_await>>
  /\ UNCHANGED hookFrame

HookNext ==
  \/ \E c \in Calls, i \in Renders : H_Invoke(c, i)
  \/ \E c \in Calls, o \in TransportOutcomes : H_FirstFetchSettles(c, o)
  \/ \E u \in Calls, r \in {"ok", "failed"} : H_UnderlyingSettles(u, r)
  \/ \E h \in Calls : H_Finally(h)
  \/ \E h \in Calls : H_Callback(h)
  \/ \E c \in Calls : H_ResumeAfterRefresh(c)
  \/ \E c \in Calls, o \in TransportOutcomes : H_RetrySettles(c, o)
  \/ \E c \in Calls : H_ResumeQueued(c)
  \/ \E c \in Calls, o \in TransportOutcomes : H_QueuedTrySettles(c, o)
  \/ \E c \in Calls, o \in TransportOutcomes : H_QueuedCatchSettles(c, o)

SpecHook == Init /\ [][HookNext]_vars

\* ------------------------------------------------------------ vocabulary
Settled(c) == pc[c] \in {"resolved", "rejected"}
InFlight(c) == pc[c] \notin {"idle", "resolved", "rejected"}

\* c was invoked with no handle installed and its first transport call
\* failed with an auth-classified failure
FirstFailedAuth(c) ==
  /\ pc[c] # "idle"
  /\ pendingAtInvoke[c] = Null
  /\ Len(fetchOut[c]) >= 1
  /\ fetchOut[c][1] \in AuthErrors

\* c itself invoked refreshToken()
InvokedRefresh(c) == \E h \in 1..Len(installer) : installer[h] = c

\* the handle c awaits (or awaited) has settled with ...
AwaitedResolved(c) == awaiting[c] # Null /\ handleState[awaiting[c]] = "ok"
AwaitedRejected(c) == awaiting[c] # Null /\ handleState[awaiting[c]] \in RefreshErrors

RECURSIVE SumFetches(_)
SumFetches(S) ==
  IF S = {} THEN 0
  ELSE LET c == CHOOSE x \in S : TRUE IN Len(fetchArgs[c]) + SumFetches(S \ {c})

\* transport invocations over all calls
TotalFetches == SumFetches(Calls)

TypeOK ==
  /\ refreshingTokenPromise \in 0..Len(handleState)
  /\ Len(refreshTokenState) = Len(handleState)
  /\ Len(installer) = Len(handleState)
  /\ \A c \in Calls : Len(fetchOut[c]) <= Len(fetchArgs[c])

\* ----------------------------------------------------------------- claims

\* C1: in every reachable state at most one refreshToken() invocation is
\* unsettled, whatever the number of calls and the interleaving.
C1_AtMostOneRefreshInFlight ==
  Cardinality({h \in 1..Len(refreshTokenState) : refreshTokenState[h] = "pending"}) <= 1

\* C1 witness: every call failed auth-classified and awaits the one unsettled refresh.
C1_Witness ==
  /\ \A c \in Calls : FirstFailedAuth(c) /\ pc[c] = "awaitRefresh"
  /\ \E h \in 1..Len(refreshTokenState) : refreshTokenState[h] = "pending"

\* C2 as stated: calls that are in flight together, all invoked with no
\* handle installed and all failed auth-classified on their first attempt,
\* have caused exactly one refreshToken() invocation, in every interleaving.
C2_OnceForEveryInterleaving ==
  (\A c \in Calls : FirstFailedAuth(c) /\ InFlight(c)) => refreshCalls = 1

\* C2 amended: when every first-attempt failure happens before the handle
\* installed at the first of them has been cleared, refreshToken() is
\* invoked exactly once across the calls.
C2_OncePerEpisode ==
  (\A c \in Calls : FirstFailedAuth(c) /\ clearedAtFail[c] = 0) => refreshCalls = 1

\* C2 witness: all calls failed within the first episode and its refresh has settled.
C2_Witness ==
  /\ \A c \in Calls : FirstFailedAuth(c) /\ clearedAtFail[c] = 0
  /\ handleState[1] # "pending"

\* C3: first attempt fails auth-classified with E, the refresh succeeds and
\* the retry fails with F2: the call rejects with F2.
C3_RetryFailureSurfaced ==
  \A c \in Calls :
    (/\ FirstFailedAuth(c)
     /\ AwaitedResolved(c)
     /\ Len(fetchOut[c]) = 2
     /\ fetchOut[c][2] \in TransportErrors)
    => (pc[c] = "rejected" /\ result[c] = fetchOut[c][2])

\* C4: a call invoked while a handle is installed, whose handle resolves,
\* issues exactly one transport call; when that call fails the wrapped call
\* rejects with that failure and issues nothing more.
C4_QueuedCallFetchesOnce ==
  \A c \in Calls :
    (pendingAtInvoke[c] # Null /\ AwaitedResolved(c))
    => /\ Len(fetchArgs[c]) <= 1
       /\ Settled(c) => Len(fetchArgs[c]) = 1
       /\ (Len(fetchOut[c]) >= 1 /\ fetchOut[c][1] \in TransportErrors)
            => (pc[c] = "rejected" /\ result[c] = fetchOut[c][1])

\* C5: first attempt fails auth-classified with E and the refreshToken()
\* this call invoked fails with R: the call rejects with E, never with R,
\* and never resolves.
C5_OriginalErrorOnRefreshFailure ==
  \A c \in Calls :
    (FirstFailedAuth(c) /\ AwaitedRejected(c) /\ installer[awaiting[c]] = c)
    => /\ pc[c] \in {"awaitRefresh", "rejected"}
       /\ pc[c] = "rejected" => (result[c] = fetchOut[c][1] /\ result[c] \notin RefreshErrors)

\* C5 witness: the triggering call has rejected after its refresh failed.
C5_Witness ==
  \E c \in Calls :
    /\ FirstFailedAuth(c) /\ AwaitedRejected(c) /\ installer[awaiting[c]] = c
    /\ pc[c] = "rejected"

\* C6 as stated: every call that did not invoke refreshToken() itself and
\* whose awaited handle rejected issues a transport call after that
\* rejection and settles with its outcome, whether it queued at invocation
\* or joined after its own first failure.
C6_EveryNonTriggeringCallRefetches ==
  \A c \in Calls :
    (AwaitedRejected(c) /\ installer[awaiting[c]] # c /\ Settled(c))
    => /\ Len(fetchArgs[c]) = (IF pendingAtInvoke[c] # Null THEN 1 ELSE 2)
       /\ result[c] = fetchOut[c][Len(fetchOut[c])]
       /\ result[c] \notin RefreshErrors

\* C6 amended: a call that found the handle installed when it was invoked
\* and sees it reject issues exactly one transport call, after the
\* rejection, and settles with that call's outcome; a call that joined the
\* handle after its own first attempt failed issues no further transport
\* call and rejects with its own first failure; neither settles with the
\* refresh failure.
C6_BystanderIsolation ==
  \A c \in Calls :
    (AwaitedRejected(c) /\ installer[awaiting[c]] # c)
    => IF pendingAtInvoke[c] # Null
         THEN /\ pc[c] \in {"awaitQueued", "fetchQueuedCatch", "resolved", "rejected"}
              /\ Len(fetchArgs[c]) <= 1
              /\ Settled(c) => /\ Len(fetchArgs[c]) = 1
                               /\ result[c] = fetchOut[c][1]
                               /\ (pc[c] = "resolved") = (fetchOut[c][1] \in TransportValues)
         ELSE /\ pc[c] \in {"awaitRefresh", "rejected"}
              /\ Len(fetchArgs[c]) = 1
              /\ pc[c] = "rejected" => result[c] = fetchOut[c][1]

\* C6 witness: a queued call has settled with its own transport outcome
\* after the handle it awaited rejected.
C6_Witness ==
  \E c \in Calls :
    /\ pendingAtInvoke[c] # Null /\ AwaitedRejected(c)
    /\ pc[c] = "rejected" /\ result[c] \in TransportErrors

\* C7: first attempt fails auth-classified and the awaited refresh
\* succeeds: exactly one second transport call, with the arguments of the
\* first, issued only after the refresh settled; when it succeeds with V the
\* call resolves with V.
C7_RetryAfterRefresh ==
  \A c \in Calls :
    FirstFailedAuth(c)
    => /\ Len(fetchArgs[c]) <= 2
       /\ Len(fetchArgs[c]) = 2
            => /\ AwaitedResolved(c)
               /\ refreshTokenState[awaiting[c]] = "ok"
               /\ fetchArgs[c][2] = fetchArgs[c][1]
       /\ (AwaitedResolved(c) /\ Settled(c)) => Len(fetchArgs[c]) = 2
       /\ (Len(fetchOut[c]) = 2 /\ fetchOut[c][2] \in TransportValues)
            => (pc[c] = "resolved" /\ result[c] = fetchOut[c][2])

\* C7 witness: a call has resolved with the value of its retry, issued with non-default options.
C7_Witness ==
  \E c \in Calls :
    /\ FirstFailedAuth(c) /\ AwaitedResolved(c)
    /\ pc[c] = "resolved" /\ Len(fetchOut[c]) = 2 /\ result[c] = fetchOut[c][2]
    /\ args[c][2] # "{}"

\* C8 as stated: every call invoked with no handle installed whose first
\* attempt failed auth-classified issues exactly one further transport call.
C8_AlwaysOneFurtherFetch ==
  \A c \in Calls : (FirstFailedAuth(c) /\ Settled(c)) => Len(fetchArgs[c]) = 2

\* C8 amended: such a call issues exactly one further transport call when
\* the refresh it awaits succeeds and none when that refresh fails; never
\* more than two in total.
C8_OneFurtherFetchIffRefreshed ==
  \A c \in Calls :
    FirstFailedAuth(c)
    => /\ Len(fetchArgs[c]) \in {1, 2}
       /\ Len(fetchArgs[c]) = 2 => AwaitedResolved(c)
       /\ Settled(c) => Len(fetchArgs[c]) = (IF AwaitedResolved(c) THEN 2 ELSE 1)

\* C8 witness: all calls failed auth-classified concurrently, one refresh
\* failed, and all of them have settled after a single transport call each.
C8_Witness ==
  /\ \A c \in Calls : FirstFailedAuth(c) /\ Settled(c) /\ AwaitedRejected(c) /\ awaiting[c] = 1
  /\ \A c \in Calls : Len(fetchArgs[c]) = 1

\* C9: all calls fail auth-classified before the shared refresh settles,
\* the refresh succeeds and every later transport call succeeds:
\* refreshToken() is invoked once, no retry is issued before the refresh
\* settled, each call issues one retry and resolves with its value, and the
\* transport is invoked 2N times.
C9_ConcurrentScenario ==
  (\A c \in Calls : FirstFailedAuth(c) /\ clearedAtFail[c] = 0)
  => /\ refreshCalls = 1
     /\ (refreshTokenState[1] # "ok" \/ handleState[1] # "ok")
          => \A c \in Calls : Len(fetchArgs[c]) = 1
     /\ (/\ handleState[1] = "ok"
         /\ \A c \in Calls : Settled(c)
         /\ \A c \in Calls : \A i \in 2..Len(fetchOut[c]) : fetchOut[c][i] \in TransportValues)
          => /\ \A c \in Calls : /\ pc[c] = "resolved"
                                 /\ Len(fetchArgs[c]) = 2
                                 /\ result[c] = fetchOut[c][2]
             /\ TotalFetches = 2 * NumCalls

\* C9 witness: the scenario has run to completion with every call resolved.
C9_Witness ==
  /\ \A c \in Calls : FirstFailedAuth(c) /\ clearedAtFail[c] = 0 /\ pc[c] = "resolved"
  /\ handleState[1] = "ok"
  /\ TotalFetches = 2 * NumCalls

\* C10: a call invoked while a handle is installed issues no transport call
\* before that handle has settled and never invokes refreshToken() itself.
C10_QueuedCallWaits ==
  \A c \in Calls :
    pendingAtInvoke[c] # Null
    => /\ handleState[pendingAtInvoke[c]] = "pending" => Len(fetchArgs[c]) = 0
       /\ ~InvokedRefresh(c)

\* C10 witness: a queued call has issued its transport call after the handle settled.
C10_Witness ==
  \E c \in Calls :
    /\ pendingAtInvoke[c] # Null
    /\ handleState[pendingAtInvoke[c]] # "pending"
    /\ Len(fetchArgs[c]) >= 1

\* C11 as stated: the step in which a refreshToken() invocation settles is
\* the step in which the installed handle becomes absent.
C11_ClearedInSettlementStep ==
  [][\A h \in 1..Len(refreshTokenState) :
       (refreshTokenState[h] = "pending" /\ refreshTokenState'[h] # "pending")
       => refreshingTokenPromise' = Null]_vars

\* C11 amended: the handle becomes absent in the callback that runs after
\* the refreshToken() invocation settled, which is the step in which the
\* handle itself settles: an installed handle is always unsettled, and no
\* call that has resumed from awaiting a handle finds that handle installed.
C11_ClearedWhenHandleSettles ==
  /\ refreshingTokenPromise # Null => handleState[refreshingTokenPromise] = "pending"
  /\ \A c \in Calls :
       (awaiting[c] # Null /\ pc[c] \notin {"awaitRefresh", "awaitQueued"})
       => refreshingTokenPromise # awaiting[c]

\* C11 witness: a call has rejected after the refresh it awaited failed, and
\* no handle is installed.
C11_Witness ==
  \E c \in Calls :
    /\ AwaitedRejected(c) /\ pc[c] = "rejected"
    /\ refreshingTokenPromise = Null

\* C12: every rejection of a call carries a failure produced by one of that
\* call's own transport attempts, never a refresh failure or a value of the
\* coordinator's making.
C12_RejectsWithOwnTransportFailure ==
  \A c \in Calls :
    pc[c] = "rejected"
    => /\ result[c] \in TransportErrors
       /\ result[c] \notin RefreshErrors
       /\ \E i \in 1..Len(fetchOut[c]) : fetchOut[c][i] = result[c]

\* C12 witness: two calls have rejected with different failures, one of them
\* after the refresh it awaited failed.
C12_Witness ==
  \E c, d \in Calls :
    /\ pc[c] = "rejected" /\ pc[d] = "rejected"
    /\ result[c] # result[d]
    /\ AwaitedRejected(c)

\* C13: a first transport attempt that succeeds with V resolves the call
\* with V after exactly one transport call, without classifying anything
\* and without invoking refreshToken().
C13_PassThrough ==
  \A c \in Calls :
    (Len(fetchOut[c]) >= 1 /\ fetchOut[c][1] \in TransportValues)
    => /\ pc[c] = "resolved"
       /\ result[c] = fetchOut[c][1]
       /\ Len(fetchArgs[c]) = 1
       /\ classified[c] = <<>>
       /\ ~InvokedRefresh(c)

\* C13 witness: a call invoked with no handle installed resolved with its first attempt's value.
C13_Witness ==
  \E c \in Calls :
    /\ pendingAtInvoke[c] = Null /\ pc[c] = "resolved"
    /\ Len(fetchOut[c]) = 1 /\ result[c] = "V2"

\* state part of C14
C14_State ==
  \A c \in Calls :
    (/\ pc[c] # "idle" /\ pendingAtInvoke[c] = Null
     /\ Len(fetchOut[c]) >= 1 /\ fetchOut[c][1] \in NonAuthErrors)
    => /\ pc[c] = "rejected"
       /\ result[c] = fetchOut[c][1]
       /\ Len(fetchArgs[c]) = 1
       /\ awaiting[c] = Null
       /\ ~InvokedRefresh(c)

\* step part of C14
C14_Step ==
  \A c \in Calls :
    (pc[c] = "fetchFirst" /\ pc'[c] = "rejected")
    => UNCHANGED <<refreshingTokenPromise, refreshTokenState, handleState, installer>>

\* C14: a first attempt issued with no handle installed that fails with a
\* failure E the classifier rejects makes the call reject with E, issue no
\* further transport call and invoke no refreshToken(), and the step leaves
\* the handle as it was.
C14_NonAuthFailurePropagates == []C14_State /\ [][C14_Step]_vars

\* C14 witness: a call rejected with a non-auth failure while another call's refresh is pending.
C14_Witness ==
  \E c \in Calls :
    /\ pendingAtInvoke[c] = Null /\ pc[c] = "rejected" /\ result[c] \in NonAuthErrors
    /\ refreshingTokenPromise # Null

\* C15: as long as the transport has failed with non-auth failures only,
\* refreshToken() has not been invoked and shouldRefreshToken has been
\* called exactly once for each failed call, with its failure, and never
\* for a call that succeeded.
C15_NoSpuriousRefresh ==
  (\A c \in Calls : \A i \in 1..Len(fetchOut[c]) : fetchOut[c][i] \notin AuthErrors)
  => /\ refreshCalls = 0
     /\ \A c \in Calls :
          classified[c] = IF Len(fetchOut[c]) >= 1 /\ fetchOut[c][1] \in TransportErrors
                            THEN <<fetchOut[c][1]>> ELSE <<>>

\* C15 witness: every call has settled, one failed non-auth and one succeeded.
C15_Witness ==
  /\ \A c \in Calls : Settled(c) /\ Len(fetchOut[c]) = 1 /\ fetchOut[c][1] \notin AuthErrors
  /\ \E c \in Calls : pc[c] = "rejected"
  /\ \E c \in Calls : pc[c] = "resolved"

\* C16: a call leaves an await only in a step that follows the settlement of
\* what it awaits: it moves past the handle only when the handle and the
\* refreshToken() invocation behind it have settled, and past a transport
\* call only in the step that records that call's outcome; it never settles
\* otherwise.
C16_NoSettlementWithoutAwaited ==
  [][\A c \in Calls :
       /\ (pc[c] \in {"awaitRefresh", "awaitQueued"} /\ pc'[c] # pc[c])
            => /\ handleState[awaiting[c]] # "pending"
               /\ refreshTokenState[awaiting[c]] # "pending"
       /\ (pc[c] \in {"fetchFirst", "fetchRetry", "fetchQueuedTry", "fetchQueuedCatch"}
             /\ pc'[c] # pc[c])
            => Len(fetchOut'[c]) = Len(fetchOut[c]) + 1
       /\ (~Settled(c) /\ Settled(c)')
            => \/ Len(fetchOut'[c]) = Len(fetchOut[c]) + 1
               \/ pc[c] = "awaitRefresh" /\ handleState[awaiting[c]] \in RefreshErrors]_vars

\* C16 witness: one call has settled while another still awaits a
\* refreshToken() invocation that has not settled.
C16_Witness ==
  \E c, d \in Calls :
    /\ pc[c] = "awaitRefresh" /\ refreshTokenState[awaiting[c]] = "pending"
    /\ Settled(d)

\* a handle created through instance i is installed and unsettled
T_Pending(i) == \E h \in 1..Len(t_hstate) : t_hinst[h] = i /\ t_hstate[h] = "pending"

\* state part of C17: the slot of an instance holds only a handle created
\* through that instance, and a call only ever waits on such a handle
C17_State ==
  /\ \A i \in Instances :
       /\ t_handle[i] # Null => (t_hinst[t_handle[i]] = i /\ t_hstate[t_handle[i]] = "pending")
       /\ T_Pending(i) => t_handle[i] # Null
  /\ \A c \in Calls : t_await[c] # Null => t_hinst[t_await[c]] = t_inst[c]

\* step part of C17
C17_Step ==
  /\ \A i \in Instances :
       (T_Pending(i) # T_Pending(i)')
       => \/ \E c \in Calls : t_inst'[c] = i /\ t_pc'[c] # t_pc[c]
          \/ \E h \in 1..Len(t_hstate) : t_hinst[h] = i /\ t_hstate'[h] # t_hstate[h]
  /\ \A c \in Calls :
       /\ (t_pc[c] = "idle" /\ t_pc'[c] # "idle")
            => (t_pc'[c] = "awaitQueued") = T_Pending(t_inst'[c])
       /\ (t_pc[c] = "fetchFirst" /\ t_pc'[c] = "awaitRefresh")
            => (Len(t_hstate') = Len(t_hstate) + 1) = ~T_Pending(t_inst[c])

\* C17: with two instances, the pending handle of an instance changes only
\* in steps of calls made through it (or of the refresh such a call
\* started); a call queues exactly when a refresh is pending on its own
\* instance, and a first auth-classified failure invokes refreshToken()
\* exactly when none is pending on its own instance.
C17_InstancesIndependent == []C17_State /\ [][C17_Step]_vars

\* C17 witness: both instances have a refresh pending at once, each started by its own call.
C17_Witness ==
  /\ T_Pending(1) /\ T_Pending(2)
  /\ \E c, d \in Calls : /\ t_inst[c] = 1 /\ t_inst[d] = 2
                         /\ t_pc[c] = "awaitRefresh" /\ t_pc[d] = "awaitRefresh"

\* state part of C18: what a call classified, whether it joined a refresh
\* and what it surfaced, as functions of the outcomes of its transport calls
C18_State ==
  \A c \in Calls :
    LET direct == pc[c] # "idle" /\ pendingAtInvoke[c] = Null
        failedFirst == Len(fetchOut[c]) >= 1 /\ fetchOut[c][1] \in TransportErrors
    IN /\ classified[c] = IF direct /\ failedFirst THEN <<fetchOut[c][1]>> ELSE <<>>
       /\ (direct /\ failedFirst /\ fetchOut[c][1] \in AuthErrors)
            => /\ awaiting[c] # Null
               /\ pc[c] \in {"awaitRefresh", "fetchRetry", "resolved", "rejected"}
               /\ pc[c] = "rejected" => result[c] = fetchOut[c][1]
               /\ Len(fetchArgs[c]) = 2 => AwaitedResolved(c)
       /\ (direct /\ failedFirst /\ fetchOut[c][1] \notin AuthErrors)
            => (pc[c] = "rejected" /\ result[c] = fetchOut[c][1] /\ awaiting[c] = Null)
       /\ (pendingAtInvoke[c] # Null /\ failedFirst)
            => /\ ~InvokedRefresh(c)
               /\ Len(fetchArgs[c]) = (IF AwaitedResolved(c) THEN 2 ELSE 1)
               /\ pc[c] = "rejected" => result[c] = fetchOut[c][Len(fetchArgs[c])]
       /\ pc[c] = "resolved" => result[c] = fetchOut[c][Len(fetchOut[c])]

\* step part of C18: the step that records the failure of a first attempt
\* starts a refresh exactly when no handle is installed, and joins the
\* installed one otherwise
C18_Step ==
  \A c \in Calls :
    (/\ Len(fetchOut[c]) = 0 /\ Len(fetchOut'[c]) >= 1
     /\ pendingAtInvoke'[c] = Null
     /\ fetchOut'[c][1] \in AuthErrors)
    => /\ (Len(refreshTokenState') = Len(refreshTokenState) + 1) = (refreshingTokenPromise = Null)
       /\ awaiting'[c] = IF refreshingTokenPromise = Null
                           THEN Len(refreshTokenState) + 1 ELSE refreshingTokenPromise

\* C18: whether the transport throws or returns a rejected promise, on the
\* first attempt, the retry and the queued attempt alike, the failure is
\* classified, decides the refresh and is surfaced by the same rules.
C18_ThrowHandledAsRejection == []C18_State /\ [][C18_Step]_vars

\* C18 witness: the transport has thrown on a first attempt, on a retry and
\* on a queued attempt, and every call has settled.
C18_Witness ==
  /\ thrownSync = {"first", "retry", "queued"}
  /\ \A c \in Calls : Settled(c)

\* C19: for every response whose ok flag is false, fetchJSON rejects with a
\* ResponseError carrying the response's status and the response itself,
\* and the body read from it, whatever its content type and body text.
C19_NonOkGivesResponseError ==
  (j_pc \in {"resolved", "rejected"} /\ j_response \in Responses /\ ~j_response.ok)
  => /\ j_pc = "rejected"
     /\ j_result.kind = "ResponseError"
     /\ j_result.status = j_response.status
     /\ j_result.response = j_response

\* a dispatch has invoked every listener it is going to invoke
DispatchDone == m_dispatch = "running" /\ ForEachDone

\* how often x occurs in the sequence q
Count(q, x) == Cardinality({i \in 1..Len(q) : q[i] = x})

\* C20: when a dispatch finishes, every listener of the array as it was when
\* the dispatch started has been invoked once per registration, each time
\* with the new state, whatever the listeners did while they ran.
C20_EveryListenerInvokedOnce ==
  DispatchDone =>
    /\ \A l \in Listeners : Count([i \in 1..Len(m_invoked) |-> m_invoked[i][1]], l)
                            = Count(m_snapshot, l)
    /\ \A i \in 1..Len(m_invoked) : m_invoked[i][2] = m_state

\* the listeners the running dispatch has invoked, in order
InvokedListeners == [i \in 1..Len(m_invoked) |-> m_invoked[i][1]]

C22_State ==
  /\ m_thrown = {}
  /\ m_dispatch = "running" => m_current = m_state
  /\ (DispatchDone /\ ~m_reentered) =>
       /\ InvokedListeners = m_snapshot
       /\ \A i \in 1..Len(m_invoked) : m_invoked[i][2] = m_state

C22_Step ==
  Len(m_caught') > Len(m_caught) =>
    /\ m_dispatch' = "running"
    /\ m_k' = m_k + 1
    /\ m_iter' = m_iter /\ m_listeners' = m_listeners
    /\ m_current' = m_current /\ m_state' = m_state

\* C22: a listener that throws does not stop the dispatch. The step in which
\* it throws leaves the dispatch running on the unchanged array, one index
\* further, with the current state still the new state, and no error ever
\* reaches the platform; a dispatch in which listeners only return or throw
\* ends having invoked every listener of the array, in order, with the new state.
C22_ThrowDoesNotStopDispatch == []C22_State /\ [][C22_Step]_vars

\* C22 witness: the first listener of a finished dispatch threw and a listener
\* registered after it was invoked all the same.
C22_Witness ==
  /\ DispatchDone /\ ~m_reentered
  /\ Len(m_caught) >= 1 /\ Len(m_invoked) >= 2
  /\ m_caught[1] = m_invoked[1][1]
  /\ m_invoked[2][2] = m_current

\* the state that the report of this step stands for
ReportedState == IF m_kind' = "app" THEN m_reported'[1] ELSE NetworkStateOf(m_reported'[1])

C23_Step ==
  /\ Len(m_reported') = 1 =>
       IF ReportedState = m_current
       THEN /\ m_dispatch' = "idle"
            /\ UNCHANGED <<m_current, m_state, m_listeners, m_invoked, m_snapshot>>
       ELSE /\ m_dispatch' = "running"
            /\ m_current' = ReportedState
            /\ m_state' = ReportedState
  /\ (m_dispatch = "idle" /\ m_dispatch' = "running") =>
       Len(m_reported') = 1 /\ m_current' # m_current
  /\ Len(m_invoked') > Len(m_invoked) =>
       m_invoked'[Len(m_invoked')][2] = m_current'

\* C23: a report that stands for the current state changes nothing and starts
\* no dispatch; any other report makes its state the current state and starts
\* a dispatch with it; a dispatch starts in no other way; and every listener
\* is invoked with the state that is the manager's current state at that moment.
C23_NotifyOnlyOnChange == [][C23_Step]_vars

\* C23 witness: NetInfo has just reported, with a nullish type, the state the
\* network manager already had, listeners are registered, no dispatch started.
C23_Witness ==
  /\ m_kind = "net"
  /\ Len(m_reported) = 1
  /\ m_reported[1].type = "null"
  /\ m_current.isConnected = "false"
  /\ Len(m_listeners) > 0
  /\ m_dispatch = "idle"

C24_State ==
  e_outcome = "returned" => e_result[1].id = e_first

C24_Step ==
  (e_first = 0 /\ e_first' # 0) =>
    /\ e_result'[1].id = e_created + 1
    /\ e_result'[1].fields = Detect(e_globals)
    /\ cachedEnvironment' = e_result'

C25_EveryCallSettles ==
  /\ \A c \in Calls : (pc[c] # "idle") ~> Settled(c)
  /\ (refreshingTokenPromise # Null) ~> (refreshingTokenPromise = Null)

\* C25 witness: every call has settled, one of them after waiting for a
\* handle that another call installed, and no handle is left.
C25_Witness ==
  /\ \A c \in Calls : Settled(c)
  /\ \E c \in Calls : awaiting[c] # Null /\ ~InvokedRefresh(c)
  /\ refreshingTokenPromise = Null

\* C26: a call never issues more than two transport calls, has issued at
\* least one by the time it settles, and has issued none only while it is
\* not yet invoked or still waits at line 21 for the handle it found.
C26_OneOrTwoTransportCalls ==
  \A c \in Calls :
    /\ Len(fetchArgs[c]) <= 2
    /\ Settled(c) => Len(fetchArgs[c]) >= 1
    /\ Len(fetchArgs[c]) = 0 => pc[c] \in {"idle", "awaitQueued"}

\* C26 witness: every call has settled; one found a handle installed, waited,
\* and issued two transport calls, another issued its first and its retry.
C26_Witness ==
  /\ \A c \in Calls : Settled(c)
  /\ \E c \in Calls : pendingAtInvoke[c] # Null /\ Len(fetchArgs[c]) = 2
  /\ \E c \in Calls : InvokedRefresh(c) /\ Len(fetchArgs[c]) = 2

C27_State ==
  \A c \in Calls :
    (FirstFailedAuth(c) /\ ~InvokedRefresh(c)) =>
      /\ awaiting[c] # Null
      /\ installer[awaiting[c]] # c
      /\ Len(fetchArgs[c]) <= 1 \/ handleState[awaiting[c]] = "ok"

C27_Step ==
  \A c \in Calls :
    (pc[c] = "fetchFirst" /\ pc'[c] = "awaitRefresh" /\ refreshingTokenPromise # Null) =>
      /\ refreshTokenState' = refreshTokenState
      /\ refreshingTokenPromise' = refreshingTokenPromise
      /\ awaiting'[c] = refreshingTokenPromise

\* C27: a call whose first attempt fails auth-classified while a handle is
\* installed invokes no refreshToken() and leaves the handle in place: it
\* awaits that handle, which another call installed, and has issued a second
\* transport call only if that handle resolved.
C27_LateJoinerAwaitsExistingHandle == []C27_State /\ [][C27_Step]_vars

\* C27 witness: a call that started with no handle installed failed
\* auth-classified, joined another call's handle, and issued its retry after
\* that handle resolved.
C27_Witness ==
  \E c \in Calls :
    /\ FirstFailedAuth(c) /\ ~InvokedRefresh(c)
    /\ handleState[awaiting[c]] = "ok"
    /\ Len(fetchArgs[c]) = 2
    /\ refreshCalls = 1

\* C28: a call that failed auth-classified with E, joined a handle installed
\* by another call and has resumed after that handle rejected, is rejected
\* with E, the failure of its own first transport call, and has issued no
\* second transport call.
C28_LateJoinerRejectsWithOwnFailure ==
  \A c \in Calls :
    (FirstFailedAuth(c) /\ ~InvokedRefresh(c) /\ AwaitedRejected(c) /\ pc[c] # "awaitRefresh") =>
      /\ pc[c] = "rejected"
      /\ result[c] = fetchOut[c][1]
      /\ result[c] = error[c]
      /\ Len(fetchArgs[c]) = 1

\* C28 witness: the late joiner was rejected with its own failure, which
\* differs from the failure of the call that invoked the failed refresh.
C28_Witness ==
  \E c, d \in Calls :
    /\ FirstFailedAuth(c) /\ ~InvokedRefresh(c) /\ AwaitedRejected(c)
    /\ pc[c] = "rejected"
    /\ InvokedRefresh(d) /\ pc[d] = "rejected"
    /\ result[c] # result[d]

\* C29 as stated: once every refreshToken() invocation has settled, no handle
\* is installed, so that the next call starts with none pending.
C29_InitialStateOnceRefreshSettled ==
  (\A h \in 1..Len(refreshTokenState) : refreshTokenState[h] # "pending")
    => refreshingTokenPromise = Null

\* no handle is unsettled: the reaction of every settled refreshToken() has run
AllHandlesSettled == \A h \in 1..Len(handleState) : handleState[h] # "pending"

C29_State == AllHandlesSettled => refreshingTokenPromise = Null

C29_Step ==
  \A c \in Calls :
    AllHandlesSettled =>
      /\ (pc[c] = "idle" /\ pc'[c] # "idle") =>
           pc'[c] = "fetchFirst" /\ pendingAtInvoke'[c] = Null
      /\ (pc[c] = "fetchFirst" /\ pc'[c] = "awaitRefresh") =>
           /\ Len(refreshTokenState') = Len(refreshTokenState) + 1
           /\ refreshingTokenPromise' = Len(handleState) + 1
           /\ installer'[Len(installer')] = c

\* C29 amended: once the reaction of a settled refreshToken() has run, the
\* job in which the handle itself settles, whether with success or with
\* failure, no handle is installed: a call invoked from then on issues its
\* transport call at once, and a first-attempt auth-classified failure from
\* then on invokes refreshToken() again and installs a new handle.
C29_InitialStateOnceHandleSettled == []C29_State /\ [][C29_Step]_vars

\* C29 witness: after a refresh that failed, a later auth-classified failure
\* has invoked refreshToken() a second time.
C29_Witness ==
  /\ Len(refreshTokenState) = 2
  /\ handleState[1] \in RefreshErrors
  /\ refreshingTokenPromise = 2

\* C30: shouldRefreshToken is applied at most once per call, and then to the
\* failure of the call's first transport call, issued with no handle
\* installed; a call that found a handle installed classifies nothing and
\* invokes no refreshToken(), and no call invokes refreshToken() twice.
C30_ClassifiedAtMostOnce ==
  \A c \in Calls :
    /\ Len(classified[c]) <= 1
    /\ Len(classified[c]) = 1 =>
         /\ pendingAtInvoke[c] = Null
         /\ classified[c][1] = fetchOut[c][1]
    /\ pendingAtInvoke[c] # Null => classified[c] = <<>> /\ ~InvokedRefresh(c)
    /\ Cardinality({h \in 1..Len(installer) : installer[h] = c}) <= 1

\* C30 witness: a retry failed auth-classified and a bystander's transport
\* call failed auth-classified; the one classification made is that of the
\* first failure, and refreshToken() was invoked once.
C30_Witness ==
  /\ refreshCalls = 1
  /\ \E c \in Calls :
       /\ Len(fetchOut[c]) = 2 /\ pendingAtInvoke[c] = Null
       /\ fetchOut[c][2] \in AuthErrors
       /\ Len(classified[c]) = 1
  /\ \E d \in Calls :
       /\ pendingAtInvoke[d] # Null /\ Settled(d)
       /\ fetchOut[d][1] \in AuthErrors
       /\ classified[d] = <<>>

C31_State ==
  /\ refreshCalls <= Cardinality({c \in Calls : FirstFailedAuth(c)})
  /\ \A h \in 1..Len(installer) : FirstFailedAuth(installer[h])

C31_Step ==
  Len(refreshTokenState') # Len(refreshTokenState) =>
    /\ Len(refreshTokenState') = Len(refreshTokenState) + 1
    /\ refreshingTokenPromise = Null
    /\ \E c \in Calls :
         /\ pc[c] = "fetchFirst" /\ pc'[c] = "awaitRefresh"
         /\ Len(fetchOut'[c]) = 1 /\ fetchOut'[c][1] \in AuthErrors
         /\ installer'[Len(installer')] = c

\* C31: refreshToken() is invoked only in the step in which the first
\* transport call of some call fails auth-classified while no handle is
\* installed, and once in that step: the number of invocations never exceeds
\* the number of calls whose first attempt so failed, and is zero after
\* construction.
C31_RefreshOnlyOnAuthFailure == []C31_State /\ [][C31_Step]_vars

\* C31 witness: both calls failed auth-classified on their first attempt and
\* refreshToken() was invoked once.
C31_Witness ==
  /\ refreshCalls = 1
  /\ \A c \in Calls : FirstFailedAuth(c)

\* C32: when refreshToken() threw on being invoked, the handle installed for
\* it is cleared by the time the call that invoked it has been rejected, so
\* that a later call finds no handle installed.
C32_HandleClearedAfterThrow ==
  \A h \in 1..Len(handleState) :
    (handleState[h] \in ThrownRefreshErrors /\ Settled(installer[h]))
      => refreshingTokenPromise # h

\* C33: a call made through a fetch function of the hook has issued its retry
\* only if the configuration.refreshToken() invocation that was in flight
\* when the handle it awaited was installed has settled.
C33_RetryAfterUnderlyingRefresh ==
  \A c \in Calls :
    (hc_pc[c] \in {"fetchRetry", "retried"} /\ hk_seen[hc_await[c]] # 0)
      => h_under[hk_seen[hc_await[c]]] # "pending"

C34_State ==
  /\ Cardinality({u \in 1..Len(h_under) : h_under[u] = "pending"}) <= 1
  /\ h_ref <=> Holder # 0
  /\ \A u \in 1..Len(h_under) : h_under[u] = "pending" => h_ref

C34_Step ==
  /\ Len(h_under') > Len(h_under) =>
       /\ ~h_ref /\ h_ref'
       /\ \A u \in 1..Len(h_under) : h_under[u] # "pending"
  /\ \A h \in 1..Len(hk_enh) :
       (hk_under[h] # 0 /\ hk_enh[h] = "pending" /\ hk_enh'[h] # "pending") =>
         /\ ~h_ref'
         /\ hk_enh'[h] = h_under[hk_under[h]]

\* C34: through the wrapper of one hook instance, configuration.refreshToken()
\* is invoked only while refreshingRef is unset and no earlier invocation is
\* unsettled, so at most one is ever unsettled; refreshingRef is set from the
\* invocation until the wrapper resumes after it settled, and that step
\* unsets it whether the invocation resolved or rejected.
C34_OneUnderlyingRefreshAtATime == []C34_State /\ [][C34_Step]_vars

\* C34 witness: a first invocation failed, refreshingRef was unset, and a
\* second invocation is now unsettled with refreshingRef set again.
C34_Witness ==
  /\ Len(h_under) = 2
  /\ h_under[1] = "failed" /\ h_under[2] = "pending"
  /\ h_ref

\* C35: an unsubscribe function obtained before destroy never removes a
\* registration made after it, and a state change whose listeners make no call
\* on the manager invokes only listeners that are registered at that moment,
\* none of which can date from before the last destroy.
C35_DestroyIsolatesRegistrations ==
  /\ ~m_staleHit
  /\ (m_dispatch = "running" /\ ~m_reentered) =>
       \A i \in 1..Len(m_invoked) :
         \E j \in 1..Len(m_listeners) : m_listeners[j] = m_invoked[i][1]

\* C36: whatever the runtime globals are, a call of detectEnvironment returns
\* a result, and in it isReactNative is true only together with isNode false
\* and isBrowser false, and supportsMMKV is true only together with
\* isReactNative true.
C36_ResultForEveryCombination ==
  /\ e_outcome # "threw"
  /\ e_outcome = "returned" =>
       LET env == e_result[1].fields
       IN /\ env.isReactNative => (~env.isNode /\ ~env.isBrowser)
          /\ env.supportsMMKV => env.isReactNative

====
